---- MODULE Spec2Model ----
(***************************************************************************)
(* Usage Governor and /api/generate orchestration of Credit Commander.     *)
(*                                                                         *)
(* The model follows server/routes.ts (src/unnamed/part_000): getClientIp, *)
(* normalizeTool, checkUsageLimit, incrementUsage and the POST             *)
(* /api/generate route.  Every await on the database or on the external    *)
(* generator is a suspension point, so each handler is cut into one action *)
(* per awaited operation; everything the handler does synchronously after  *)
(* an await belongs to the action of that await.                           *)
(*                                                                         *)
(* Strings that the code inspects character by character (header values,   *)
(* the tool parameter) are sequences of one-character strings.             *)
(***************************************************************************)
EXTENDS Integers, Sequences, FiniteSets, TLC

VARIABLES
    usageTracking,    \* the usage_tracking table: (ipAddress, tool) -> reportCount or NoRow
    pc,               \* position of each task
    req,              \* the request (or direct call) each task serves
    usageCheck,       \* result of checkUsageLimit held by the task
    incrementResult,  \* result of incrementUsage held by the task
    res,              \* HTTP response sent by the task
    completion,       \* outcome of the external generator call made by the task, if any
    callNo,           \* number of requests started (sequential scenario only)
    lastUpdated,      \* usage_tracking.last_updated: the task whose UPDATE stamped the row last
    complianceReports, \* the compliance_reports table: the set of stored rows
    nextId,           \* number of report ids generated so far
    reply,            \* the last report-store call and the response it got
    clock,            \* Date.now() of the browser
    currentResult,    \* ComplianceToolkit.currentResult
    localStorage,     \* localStorage item 'currentResult'
    resultsContainer, \* innerHTML of the results panel
    exported,         \* what the last export handed to the PDF exporter
    input,            \* argument of the function under study
    output            \* its result

usageVars == <<usageTracking, lastUpdated, pc, req, usageCheck, incrementResult, res,
               completion, callNo>>

reportVars == <<complianceReports, nextId, reply>>

clientVars == <<clock, currentResult, localStorage, resultsContainer, exported>>

pureVars == <<input, output>>

vars == <<usageVars, reportVars, clientVars, pureVars>>

(***************************************************************************)
(* Bounds and program constants                                            *)
(***************************************************************************)
NumReq == 2           \* concurrent tasks
MaxCalls == 32        \* sequential requests of the scenario specification
LIMIT == 30           \* the 30-report cap

Req == 1..NumReq

NoRow == -1           \* no row for the key in usage_tracking
None == [none |-> TRUE]
NoCompletion == "none"  \* the external generator was not called

(***************************************************************************)
(* JavaScript values of headers and body fields                            *)
(***************************************************************************)
Undefined == [t |-> "undefined", v |-> <<>>]
Str(s) == [t |-> "string", v |-> s]
Arr(a) == [t |-> "array", v |-> a]
Null == [t |-> "null", v |-> <<>>]
Num(n) == [t |-> "number", v |-> n]
Obj(fields) == [t |-> "object", v |-> fields]

\* JavaScript truthiness of a header or body value
Truthy(x) == \/ x.t = "string" /\ x.v # <<>>
             \/ x.t = "array"
             \/ x.t = "number" /\ x.v # 0
             \/ x.t = "object"

\* a || b
Or(a, b) == IF Truthy(a) THEN a ELSE b

UNKNOWN == <<"u", "n", "k", "n", "o", "w", "n">>
CREDITCOMMANDER == <<"c", "r", "e", "d", "i", "t", "c", "o", "m", "m", "a", "n", "d", "e", "r">>
COMPLIPILOT == <<"c", "o", "m", "p", "l", "i", "p", "i", "l", "o", "t">>

\* String.prototype.trim on the modelled alphabet (the only white space is " ")
RECURSIVE TrimLeft(_)
TrimLeft(s) == IF s # <<>> /\ Head(s) = " " THEN TrimLeft(Tail(s)) ELSE s

RECURSIVE TrimRight(_)
TrimRight(s) == IF s # <<>> /\ s[Len(s)] = " " THEN TrimRight(SubSeq(s, 1, Len(s) - 1)) ELSE s

Trim(s) == TrimRight(TrimLeft(s))

\* s.split(',')[0]
RECURSIVE SplitFirst(_)
SplitFirst(s) == IF s = <<>> \/ Head(s) = "," THEN <<>> ELSE <<Head(s)>> \o SplitFirst(Tail(s))

\* String.prototype.toLowerCase on the modelled alphabet
LowerChar(c) == CASE c = "C" -> "c"
                  [] c = "P" -> "p"
                  [] OTHER -> c

ToLowerCase(s) == [i \in 1..Len(s) |-> LowerChar(s[i])]

(***************************************************************************)
(* getClientIp                                                             *)
(***************************************************************************)
getClientIp(q) ==
    LET forwarded == q.forwarded
        ip == IF Truthy(forwarded)
              THEN (IF forwarded.t = "string"
                    THEN Str(SplitFirst(forwarded.v))
                    ELSE (IF Len(forwarded.v) > 0 THEN Str(forwarded.v[1]) ELSE Undefined))
              ELSE Or(q.realIp, Or(q.remoteAddress, Str(UNKNOWN)))
    IN  IF ip.t = "string" THEN Trim(ip.v) ELSE UNKNOWN

(***************************************************************************)
(* normalizeTool                                                           *)
(***************************************************************************)
\* Array.prototype.join(',') of an array of strings
RECURSIVE JoinComma(_)
JoinComma(a) ==
    IF a = <<>> THEN <<>>
    ELSE IF Len(a) = 1 THEN a[1]
    ELSE a[1] \o <<",">> \o JoinComma(Tail(a))

\* String(x)
StringOf(x) ==
    CASE x.t = "string" -> x.v
      [] x.t = "number" -> << <<"0", "1", "2", "3", "4", "5", "6", "7", "8", "9">>[x.v + 1] >>
      [] x.t = "array" -> JoinComma(x.v)
      [] x.t = "object" -> <<"[", "o", "b", "j", "e", "c", "t", " ", "O", "b", "j", "e", "c", "t", "]">>
      [] x.t = "null" -> <<"n", "u", "l", "l">>
      [] OTHER -> <<"u", "n", "d", "e", "f", "i", "n", "e", "d">>

\* variant: the value is compared as it was sent
normalizeToolExact(tool) ==
    LET normalized == StringOf(Or(tool, Str(CREDITCOMMANDER)))
    IN  IF normalized = COMPLIPILOT THEN "complipilot" ELSE "creditcommander"

normalizeTool(tool) ==
    LET normalized == Trim(ToLowerCase(StringOf(Or(tool, Str(CREDITCOMMANDER)))))
    IN  IF normalized = COMPLIPILOT THEN "complipilot" ELSE "creditcommander"

(***************************************************************************)
(* Requests.  kind "generate" is a POST /api/generate request; kinds       *)
(* "check" and "increment" are direct calls of checkUsageLimit and         *)
(* incrementUsage with the request's headers and normalised tool.          *)
(***************************************************************************)
Tools == {"creditcommander", "complipilot"}

Request(kind, forwarded, realIp, remoteAddress, tool, formData) ==
    [kind |-> kind, forwarded |-> forwarded, realIp |-> realIp,
     remoteAddress |-> remoteAddress, tool |-> tool, formData |-> formData]

\* header combinations: <<x-forwarded-for, x-real-ip, socket.remoteAddress>>
ProxiedClient == <<Str(<<"1">>), Undefined, Str(<<"9">>)>>
NoAddress == <<Undefined, Undefined, Undefined>>

\* the header combinations of the concurrent tasks
HeaderCases == {ProxiedClient, NoAddress}

\* further header combinations, served by a single task
MoreHeaderCases ==
    { <<Undefined, Str(<<"2">>), Str(<<"9">>)>>,          \* x-real-ip only
      <<Undefined, Undefined, Str(<<"9">>)>>,             \* socket address only
      <<Str(<<" ", "1", ",", "2">>), Undefined, Undefined>>,  \* address list
      <<Arr(<< <<"1">> >>), Undefined, Undefined>>,       \* repeated header
      <<Arr(<<>>), Undefined, Str(<<"9">>)>>,
      <<Str(<<>>), Str(<<>>), Str(<<>>)>>,                \* empty values
      <<Str(<<",">>), Undefined, Undefined>>,             \* forwarded header without an address
      <<Str(<<" ", ",", "1">>), Undefined, Undefined>>,
      <<Str(UNKNOWN), Undefined, Str(<<"9">>)>> }

ToolInputs == {Undefined, Str(COMPLIPILOT)}

FormInputs == {"missing", "incomplete", "complete"}

Requests ==
    { Request("generate", h[1], h[2], h[3], t, f) :
          h \in HeaderCases, t \in ToolInputs, f \in {"missing", "complete"} }
    \cup
    { Request(k, h[1], h[2], h[3], t, "missing") :
          k \in {"check", "increment"}, h \in HeaderCases, t \in ToolInputs }

AllRequests ==
    Requests
    \cup
    { Request("generate", h[1], h[2], h[3], t, f) :
          h \in HeaderCases \cup MoreHeaderCases, t \in ToolInputs, f \in FormInputs }
    \cup
    { Request(k, h[1], h[2], h[3], t, "missing") :
          k \in {"check", "increment"}, h \in MoreHeaderCases, t \in ToolInputs }

\* values of the tool field of the body: missing, null, empty, the two tool
\* names, other spellings of them, an unknown name, and values that are no string
ToolVariants ==
    {Undefined, Null, Str(<<>>), Str(CREDITCOMMANDER), Str(COMPLIPILOT),
     Str(<<"C", "o", "m", "p", "l", "i", "P", "i", "l", "o", "t">>),
     Str(<<" ", "c", "o", "m", "p", "l", "i", "p", "i", "l", "o", "t", " ">>),
     Str(<<"c", "o", "m", "p", "l", "i", " ", "p", "i", "l", "o", "t">>),
     Str(<<"c", "o", "m", "p", "l", "i", "p", "i", "l", "o", "t", "2">>),
     Num(0), Num(7), Arr(<<COMPLIPILOT>>), Arr(<<COMPLIPILOT, COMPLIPILOT>>),
     Obj([name |-> Str(COMPLIPILOT)])}

\* valid requests of one client that differ in the tool field only
ToolRequests ==
    { Request("generate", ProxiedClient[1], ProxiedClient[2], ProxiedClient[3], t, "complete") :
          t \in ToolVariants }

\* the identity and the tool of every modelled request, as the route derives them
KeyOf == [q \in AllRequests \cup ToolRequests |-> <<getClientIp(q), normalizeTool(q.tool)>>]

\* every identity a modelled request resolves to, except 'unknown'
IpAddresses == {KeyOf[q][1] : q \in AllRequests} \ {UNKNOWN}

Keys == IpAddresses \X Tools

Key(q) == KeyOf[q]

GenOutcomes == {"ok", "unparseable", "insufficient_quota", "status429", "status401", "error"}

(***************************************************************************)
(* The usage_tracking table                                                *)
(***************************************************************************)
\* SELECT ... WHERE ip_address = ip AND tool = tool LIMIT 1
RowExists(table, k) == table[k] # NoRow

\* variant: the UPDATE without the limit test in its WHERE clause
UpdateWhereNoLimit(table, k) == RowExists(table, k)

\* predicate of the conditional UPDATE: the row exists and reportCount < 30
UpdateWhere(table, k) == RowExists(table, k) /\ table[k] < LIMIT

\* variant: the UPDATE adds two
NextCountTwo(count) == count + 2

\* SET report_count = report_count + 1
NextCount(count) == count + 1

\* the table rejects a second row for an (ip_address, tool) pair
UniqueViolation(table, k) == RowExists(table, k)

(***************************************************************************)
(* checkUsageLimit                                                         *)
(***************************************************************************)
CheckResult(allowed, count) == [allowed |-> allowed, count |-> count]

\* variant: the catch block of checkUsageLimit fails closed
CheckCatchClosed == CheckResult(FALSE, 30)

\* the catch block: fail open
CheckCatch == CheckResult(TRUE, 0)

checkUsageLimit(table, q, dbOk) ==
    LET ipAddress == getClientIp(q)
        k == Key(q)
    IN  IF ipAddress = UNKNOWN THEN CheckResult(FALSE, 30)
        ELSE IF ~dbOk THEN CheckCatch
        ELSE LET currentCount == IF RowExists(table, k) THEN table[k] ELSE 0
             IN  IF currentCount >= 30
                 THEN CheckResult(FALSE, currentCount)
                 ELSE CheckResult(TRUE, currentCount)

(***************************************************************************)
(* Responses of POST /api/generate                                         *)
(***************************************************************************)
\* variant: the 429 of the quota without the tool
LimitResponseNoTool(count, tool) ==
    [status |-> 429,
     body |-> [error |-> "limit", limitReached |-> TRUE, count |-> count, limit |-> 30]]

LimitResponse(count, tool) ==
    [status |-> 429,
     body |-> [error |-> "limit", limitReached |-> TRUE, count |-> count,
               limit |-> 30, tool |-> tool]]

ErrorResponse(status, error) == [status |-> status, body |-> [error |-> error]]

ContentResponse == [status |-> 200, body |-> [content |-> "roadmap"]]

\* variant: content that does not parse is replaced by the defaults
GenerationSucceededLax(outcome) == outcome \in {"ok", "unparseable"}

\* the external call returned and JSON.parse accepted its content
GenerationSucceeded(outcome) == outcome = "ok"

\* variant: an error the catch block does not know is thrown again
GenerationFailureRethrown(outcome) ==
    CASE outcome = "insufficient_quota" -> ErrorResponse(503, "unavailable")
      [] outcome = "status429" -> ErrorResponse(429, "too many requests")
      [] outcome = "status401" -> ErrorResponse(401, "authentication")
      [] OTHER -> None

\* the catch block of the route: the status for each failure of the generator
GenerationFailure(outcome) ==
    CASE outcome = "insufficient_quota" -> ErrorResponse(503, "unavailable")
      [] outcome = "status429" -> ErrorResponse(429, "too many requests")
      [] outcome = "status401" -> ErrorResponse(401, "authentication")
      [] OTHER -> ErrorResponse(500, "unexpected")

IncResult(success, count, limitReached) ==
    [success |-> success, count |-> count, limitReached |-> limitReached]

\* variant: the catch block of incrementUsage fails open
IncrementCatchOpen == IncResult(TRUE, 0, FALSE)

\* the catch block of incrementUsage: fail closed
IncrementCatch == IncResult(FALSE, 0, TRUE)

\* variant: the route ignores the result of checkUsageLimit
BlockedNever(result) == FALSE

\* the route's test after checkUsageLimit returns
Blocked(result) == ~result.allowed

\* variant: the route delivers the content whatever incrementUsage returned
IncrementRejectedNever(result) == FALSE

\* the route's test after incrementUsage returns
IncrementRejected(result) == ~result.success /\ result.limitReached

(***************************************************************************)
(* Initial state: no task is running; the table holds no row, or every     *)
(* key already holds a row at one of the initial counts.                   *)
(***************************************************************************)
InitCounts == {NoRow, LIMIT - 1, LIMIT}

Init ==
    /\ \E c \in InitCounts : usageTracking = [k \in Keys |-> c]
    /\ pc = [r \in Req |-> "None"]
    /\ req = [r \in Req |-> None]
    /\ usageCheck = [r \in Req |-> None]
    /\ incrementResult = [r \in Req |-> None]
    /\ res = [r \in Req |-> None]
    /\ completion = [r \in Req |-> NoCompletion]
    /\ callNo = 0
    /\ lastUpdated = [k \in Keys |-> 0]
    /\ complianceReports = {}
    /\ nextId = 0
    /\ reply = None
    /\ clock = 0
    /\ currentResult = Null
    /\ localStorage = Null
    /\ resultsContainer = <<>>
    /\ exported = None
    /\ input = None
    /\ output = None

(***************************************************************************)
(* A request arrives (or a direct call starts)                             *)
(***************************************************************************)
Receive(r, q) ==
    /\ pc[r] = "None"
    /\ req' = [req EXCEPT ![r] = q]
    /\ pc' = [pc EXCEPT ![r] = IF q.kind = "increment" THEN "Generated" ELSE "Idle"]
    /\ callNo' = callNo + 1
    /\ UNCHANGED <<usageTracking, lastUpdated, usageCheck, incrementResult, res, completion>>
    /\ UNCHANGED <<reportVars, clientVars, pureVars>>

(***************************************************************************)
(* Idle -> QuotaChecked: await checkUsageLimit(req, tool), then the 429    *)
(* of the route when the check does not allow the request.                 *)
(***************************************************************************)
CheckRoute(r, dbOk) ==
    /\ pc[r] = "Idle"
    /\ LET q == req[r]
           tool == normalizeTool(q.tool)
           result == checkUsageLimit(usageTracking, q, dbOk)
       IN  /\ usageCheck' = [usageCheck EXCEPT ![r] = result]
           /\ IF q.kind = "check"
              THEN /\ pc' = [pc EXCEPT ![r] = "Responded"]
                   /\ res' = res
              ELSE IF Blocked(result)
              THEN /\ pc' = [pc EXCEPT ![r] = "Responded"]
                   /\ res' = [res EXCEPT ![r] = LimitResponse(result.count, tool)]
              ELSE /\ pc' = [pc EXCEPT ![r] = "QuotaChecked"]
                   /\ res' = res
    /\ UNCHANGED <<req, incrementResult, completion, callNo>>
    /\ UNCHANGED <<reportVars, clientVars, pureVars>>

\* a check that creates the row of a key it does not find
CheckUsageUpsert(r, dbOk) ==
    /\ CheckRoute(r, dbOk)
    /\ LET k == Key(req[r])
       IN  IF dbOk /\ k \in Keys /\ ~RowExists(usageTracking, k)
           THEN /\ usageTracking' = [usageTracking EXCEPT ![k] = 0]
                /\ lastUpdated' = [lastUpdated EXCEPT ![k] = r]
           ELSE UNCHANGED <<usageTracking, lastUpdated>>

\* checkUsageLimit issues one SELECT and nothing else
CheckUsage(r, dbOk) ==
    /\ CheckRoute(r, dbOk)
    /\ UNCHANGED <<usageTracking, lastUpdated>>

(***************************************************************************)
(* QuotaChecked -> Generated: input validation, the external generation    *)
(* call, JSON.parse and normalisation of its output.                       *)
(***************************************************************************)
Generate(r, outcome) ==
    /\ pc[r] = "QuotaChecked"
    /\ LET q == req[r]
       IN  IF q.formData = "missing"
           THEN /\ res' = [res EXCEPT ![r] = ErrorResponse(400, "Form data is required.")]
                /\ pc' = [pc EXCEPT ![r] = "Responded"]
                /\ completion' = completion
           ELSE IF q.formData = "incomplete"
           THEN /\ res' = [res EXCEPT ![r] = ErrorResponse(400, "All required fields must be completed.")]
                /\ pc' = [pc EXCEPT ![r] = "Responded"]
                /\ completion' = completion
           ELSE /\ completion' = [completion EXCEPT ![r] = outcome]
                /\ IF GenerationSucceeded(outcome)
                   THEN /\ pc' = [pc EXCEPT ![r] = "Generated"]
                        /\ res' = res
                   ELSE /\ pc' = [pc EXCEPT ![r] = "Responded"]
                        /\ res' = [res EXCEPT ![r] = GenerationFailure(outcome)]
    /\ UNCHANGED <<usageTracking, lastUpdated, req, usageCheck, incrementResult, callNo>>
    /\ UNCHANGED <<reportVars, clientVars, pureVars>>

(***************************************************************************)
(* incrementUsage returns `result`; the route answers 429 when the         *)
(* increment was rejected and the generated content otherwise.             *)
(***************************************************************************)
Return(r, result) ==
    /\ incrementResult' = [incrementResult EXCEPT ![r] = result]
    /\ pc' = [pc EXCEPT ![r] = "Responded"]
    /\ res' = [res EXCEPT ![r] =
                 IF req[r].kind # "generate" THEN None
                 ELSE IF IncrementRejected(result)
                      THEN LimitResponse(result.count, normalizeTool(req[r].tool))
                      ELSE ContentResponse]

(***************************************************************************)
(* Generated: incrementUsage, first await: the conditional UPDATE          *)
(***************************************************************************)
IncUpdate(r, dbOk) ==
    /\ pc[r] = "Generated"
    /\ LET q == req[r]
           k == Key(q)
       IN  IF getClientIp(q) = UNKNOWN
           THEN /\ Return(r, IncResult(FALSE, 30, TRUE))
                /\ UNCHANGED <<usageTracking, lastUpdated>>
           ELSE IF ~dbOk
           THEN /\ Return(r, IncrementCatch)
                /\ UNCHANGED <<usageTracking, lastUpdated>>
           ELSE IF UpdateWhere(usageTracking, k)
           THEN /\ usageTracking' = [usageTracking EXCEPT ![k] = NextCount(@)]
                /\ lastUpdated' = [lastUpdated EXCEPT ![k] = r]
                /\ Return(r, IncResult(TRUE, NextCount(usageTracking[k]), FALSE))
           ELSE /\ pc' = [pc EXCEPT ![r] = "Reread"]
                /\ UNCHANGED <<usageTracking, lastUpdated, incrementResult, res>>
    /\ UNCHANGED <<req, usageCheck, completion, callNo>>
    /\ UNCHANGED <<reportVars, clientVars, pureVars>>

(***************************************************************************)
(* incrementUsage, second await: the SELECT after an UPDATE of zero rows   *)
(***************************************************************************)
IncSelect(r, dbOk) ==
    /\ pc[r] = "Reread"
    /\ LET k == Key(req[r])
       IN  IF ~dbOk
           THEN Return(r, IncrementCatch)
           ELSE IF RowExists(usageTracking, k)
           THEN Return(r, IncResult(FALSE, usageTracking[k], TRUE))
           ELSE /\ pc' = [pc EXCEPT ![r] = "Insert"]
                /\ UNCHANGED <<incrementResult, res>>
    /\ UNCHANGED <<usageTracking, lastUpdated, req, usageCheck, completion, callNo>>
    /\ UNCHANGED <<reportVars, clientVars, pureVars>>

(***************************************************************************)
(* incrementUsage, third await: the INSERT of the first row                *)
(***************************************************************************)
IncInsert(r, dbOk) ==
    /\ pc[r] = "Insert"
    /\ LET k == Key(req[r])
       IN  IF ~dbOk \/ UniqueViolation(usageTracking, k)
           THEN /\ Return(r, IncrementCatch)
                /\ UNCHANGED <<usageTracking, lastUpdated>>
           ELSE /\ usageTracking' = [usageTracking EXCEPT ![k] = 1]
                /\ lastUpdated' = lastUpdated
                /\ Return(r, IncResult(TRUE, 1, FALSE))
    /\ UNCHANGED <<req, usageCheck, completion, callNo>>
    /\ UNCHANGED <<reportVars, clientVars, pureVars>>

(***************************************************************************)
(* Specification: NumReq tasks, any interleaving of their awaited steps,   *)
(* every database operation may fail, every generator outcome may occur.   *)
(***************************************************************************)
Next ==
    \E r \in Req :
        \/ \E q \in Requests : Receive(r, q)
        \/ \E dbOk \in BOOLEAN : CheckUsage(r, dbOk)
        \/ \E outcome \in GenOutcomes : Generate(r, outcome)
        \/ \E dbOk \in BOOLEAN : IncUpdate(r, dbOk)
        \/ \E dbOk \in BOOLEAN : IncSelect(r, dbOk)
        \/ \E dbOk \in BOOLEAN : IncInsert(r, dbOk)

Spec == Init /\ [][Next]_vars

(***************************************************************************)
(* One task at a time over every modelled input                            *)
(***************************************************************************)
NextInputs ==
    \/ \E q \in AllRequests : Receive(1, q)
    \/ \E dbOk \in BOOLEAN : CheckUsage(1, dbOk)
    \/ \E outcome \in GenOutcomes : Generate(1, outcome)
    \/ \E dbOk \in BOOLEAN : IncUpdate(1, dbOk)
    \/ \E dbOk \in BOOLEAN : IncSelect(1, dbOk)
    \/ \E dbOk \in BOOLEAN : IncInsert(1, dbOk)

SpecInputs == Init /\ [][NextInputs]_vars

(***************************************************************************)
(* The same tasks with a reachable store: no database operation fails      *)
(***************************************************************************)
NextReachable ==
    \E r \in Req :
        \/ \E q \in Requests : Receive(r, q)
        \/ CheckUsage(r, TRUE)
        \/ \E outcome \in GenOutcomes : Generate(r, outcome)
        \/ IncUpdate(r, TRUE)
        \/ IncSelect(r, TRUE)
        \/ IncInsert(r, TRUE)

SpecReachable == Init /\ [][NextReachable]_vars

\* an empty usage_tracking table
InitFresh ==
    /\ Init
    /\ \A k \in Keys : ~RowExists(usageTracking, k)

SpecFresh == InitFresh /\ [][NextReachable]_vars

(***************************************************************************)
(* Sequential scenario: one identity sends valid requests for one tool,    *)
(* each after the response to the previous one; the generator succeeds and *)
(* the store is reachable.                                                 *)
(***************************************************************************)
SeqRequest ==
    Request("generate", ProxiedClient[1], ProxiedClient[2], ProxiedClient[3],
            Undefined, "complete")

\* the response has been sent; the task serves the next request
NextCall(r) ==
    /\ pc[r] = "Responded"
    /\ callNo < MaxCalls
    /\ pc' = [pc EXCEPT ![r] = "None"]
    /\ req' = [req EXCEPT ![r] = None]
    /\ usageCheck' = [usageCheck EXCEPT ![r] = None]
    /\ incrementResult' = [incrementResult EXCEPT ![r] = None]
    /\ res' = [res EXCEPT ![r] = None]
    /\ completion' = [completion EXCEPT ![r] = NoCompletion]
    /\ UNCHANGED <<usageTracking, lastUpdated, callNo>>
    /\ UNCHANGED <<reportVars, clientVars, pureVars>>

NextSeq ==
    \/ Receive(1, SeqRequest)
    \/ CheckUsage(1, TRUE)
    \/ Generate(1, "ok")
    \/ IncUpdate(1, TRUE)
    \/ IncSelect(1, TRUE)
    \/ IncInsert(1, TRUE)
    \/ NextCall(1)

SpecSeq == InitFresh /\ [][NextSeq]_vars

(***************************************************************************)
(* One identity sends valid requests one after the other, each with any    *)
(* value of the tool field; the generator succeeds and the store is        *)
(* reachable.                                                              *)
(***************************************************************************)
MaxToolCalls == 62

\* the response has been sent; the task serves the next request
NextToolCall(r) ==
    /\ pc[r] = "Responded"
    /\ callNo < MaxToolCalls
    /\ pc' = [pc EXCEPT ![r] = "None"]
    /\ req' = [req EXCEPT ![r] = None]
    /\ usageCheck' = [usageCheck EXCEPT ![r] = None]
    /\ incrementResult' = [incrementResult EXCEPT ![r] = None]
    /\ res' = [res EXCEPT ![r] = None]
    /\ completion' = [completion EXCEPT ![r] = NoCompletion]
    /\ UNCHANGED <<usageTracking, lastUpdated, callNo>>
    /\ UNCHANGED <<reportVars, clientVars, pureVars>>

NextTools ==
    \/ \E q \in ToolRequests : Receive(1, q)
    \/ CheckUsage(1, TRUE)
    \/ Generate(1, "ok")
    \/ IncUpdate(1, TRUE)
    \/ IncSelect(1, TRUE)
    \/ IncInsert(1, TRUE)
    \/ NextToolCall(1)

SpecTools == InitFresh /\ [][NextTools]_vars

(***************************************************************************)
(* The store is unreachable: every database operation of every request     *)
(* rejects.  Any interleaving of the tasks, every generator outcome.       *)
(***************************************************************************)
NextOutage ==
    \E r \in Req :
        \/ \E q \in {g \in Requests : g.kind = "generate"} : Receive(r, q)
        \/ CheckUsage(r, FALSE)
        \/ \E outcome \in GenOutcomes : Generate(r, outcome)
        \/ IncUpdate(r, FALSE)

SpecOutage == Init /\ [][NextOutage]_vars

(***************************************************************************)
(* One client, one socket address: valid requests that differ only in the  *)
(* x-forwarded-for and x-real-ip headers the client puts on them.          *)
(***************************************************************************)
ClientAddress == Str(<<"9">>)

ForgeRequests ==
    {q \in AllRequests :
        /\ q.kind = "generate"
        /\ q.remoteAddress = ClientAddress
        /\ q.tool = Undefined
        /\ q.formData = "complete"
        /\ Key(q)[1] \in {<<"1">>, <<"2">>, <<"9">>}}

NextForge ==
    \E r \in Req :
        \/ \E q \in ForgeRequests : Receive(r, q)
        \/ CheckUsage(r, TRUE)
        \/ Generate(r, "ok")
        \/ IncUpdate(r, TRUE)
        \/ IncSelect(r, TRUE)
        \/ IncInsert(r, TRUE)

SpecForge == Init /\ [][NextForge]_vars

(***************************************************************************)
(* The serverless handler of /api/generate (api/generate.ts).  Its         *)
(* getClientIp is the one of the server; its checkUsageLimit and           *)
(* incrementUsage take the request alone and select rows of usage_tracking *)
(* by ip_address only.                                                     *)
(***************************************************************************)
\* the rows WHERE ip_address = ipAddress
RowsOfIp(table, ipAddress) == {k \in Keys : k[1] = ipAddress /\ RowExists(table, k)}

\* the rows WHERE ip_address = ipAddress AND report_count < 30
ServerlessUpdateWhere(table, ipAddress) ==
    {k \in RowsOfIp(table, ipAddress) : table[k] < 30}

\* checkUsageLimit(req): the results it can return; LIMIT 1 picks any row of the address
ServerlessCheckUsageLimit(table, q, dbOk) ==
    LET ipAddress == getClientIp(q)
    IN  IF ipAddress = UNKNOWN THEN {CheckResult(FALSE, 30)}
        ELSE IF ~dbOk THEN {CheckResult(TRUE, 0)}
        ELSE LET counts == IF RowsOfIp(table, ipAddress) = {} THEN {0}
                           ELSE {table[k] : k \in RowsOfIp(table, ipAddress)}
             IN  {CheckResult(currentCount < 30, currentCount) : currentCount \in counts}

\* the 429 body of the handler
ServerlessLimitResponse(count) ==
    [status |-> 429,
     body |-> [error |-> "limit", limitReached |-> TRUE, count |-> count, limit |-> 30]]

\* await checkUsageLimit(req), then the 429 when the check does not allow the request
ServerlessCheck(r, dbOk) ==
    /\ pc[r] = "Idle"
    /\ \E result \in ServerlessCheckUsageLimit(usageTracking, req[r], dbOk) :
           /\ usageCheck' = [usageCheck EXCEPT ![r] = result]
           /\ IF ~result.allowed
              THEN /\ pc' = [pc EXCEPT ![r] = "Responded"]
                   /\ res' = [res EXCEPT ![r] = ServerlessLimitResponse(result.count)]
              ELSE /\ pc' = [pc EXCEPT ![r] = "QuotaChecked"]
                   /\ res' = res
    /\ UNCHANGED <<usageTracking, lastUpdated, req, incrementResult, completion, callNo>>
    /\ UNCHANGED <<reportVars, clientVars, pureVars>>

\* validation, the external generation call and JSON.parse; every failure of
\* the call or of the parse is answered 500 by the inner catch
ServerlessGenerate(r, outcome) ==
    /\ pc[r] = "QuotaChecked"
    /\ LET q == req[r]
       IN  IF q.formData = "missing"
           THEN /\ res' = [res EXCEPT ![r] = ErrorResponse(400, "formData is required")]
                /\ pc' = [pc EXCEPT ![r] = "Responded"]
                /\ completion' = completion
           ELSE IF q.formData = "incomplete"
           THEN /\ res' = [res EXCEPT ![r] = ErrorResponse(400, "Business name, entity type, and state are required")]
                /\ pc' = [pc EXCEPT ![r] = "Responded"]
                /\ completion' = completion
           ELSE /\ completion' = [completion EXCEPT ![r] = outcome]
                /\ IF outcome = "ok"
                   THEN /\ pc' = [pc EXCEPT ![r] = "Generated"]
                        /\ res' = res
                   ELSE /\ pc' = [pc EXCEPT ![r] = "Responded"]
                        /\ res' = [res EXCEPT ![r] = ErrorResponse(500, "Failed to generate")]
    /\ UNCHANGED <<usageTracking, lastUpdated, req, usageCheck, incrementResult, callNo>>
    /\ UNCHANGED <<reportVars, clientVars, pureVars>>

\* incrementUsage(req) returns `result`; the handler answers 429 or the content
ServerlessReturn(r, result) ==
    /\ incrementResult' = [incrementResult EXCEPT ![r] = result]
    /\ pc' = [pc EXCEPT ![r] = "Responded"]
    /\ res' = [res EXCEPT ![r] =
                 IF ~result.success /\ result.limitReached
                 THEN ServerlessLimitResponse(result.count)
                 ELSE ContentResponse]

\* incrementUsage, first await: the UPDATE of every row of the address below 30;
\* the count returned is that of updated[0]
ServerlessUpdate(r, dbOk) ==
    /\ pc[r] = "Generated"
    /\ LET ipAddress == getClientIp(req[r])
           updated == ServerlessUpdateWhere(usageTracking, ipAddress)
       IN  IF ipAddress = UNKNOWN
           THEN /\ ServerlessReturn(r, IncResult(FALSE, 30, TRUE))
                /\ UNCHANGED <<usageTracking, lastUpdated>>
           ELSE IF ~dbOk
           THEN /\ ServerlessReturn(r, IncResult(FALSE, 0, TRUE))
                /\ UNCHANGED <<usageTracking, lastUpdated>>
           ELSE IF updated # {}
           THEN /\ usageTracking' = [k \in Keys |-> IF k \in updated THEN usageTracking[k] + 1
                                                    ELSE usageTracking[k]]
                /\ lastUpdated' = [k \in Keys |-> IF k \in updated THEN r ELSE lastUpdated[k]]
                /\ \E k \in updated :
                       ServerlessReturn(r, IncResult(TRUE, usageTracking[k] + 1, FALSE))
           ELSE /\ pc' = [pc EXCEPT ![r] = "Reread"]
                /\ UNCHANGED <<usageTracking, lastUpdated, incrementResult, res>>
    /\ UNCHANGED <<req, usageCheck, completion, callNo>>
    /\ UNCHANGED <<reportVars, clientVars, pureVars>>

\* incrementUsage, second await: the SELECT ... LIMIT 1 after an UPDATE of zero rows
ServerlessSelect(r, dbOk) ==
    /\ pc[r] = "Reread"
    /\ LET existing == RowsOfIp(usageTracking, getClientIp(req[r]))
       IN  IF ~dbOk
           THEN ServerlessReturn(r, IncResult(FALSE, 0, TRUE))
           ELSE IF existing # {}
           THEN \E k \in existing : ServerlessReturn(r, IncResult(FALSE, usageTracking[k], TRUE))
           ELSE /\ pc' = [pc EXCEPT ![r] = "Insert"]
                /\ UNCHANGED <<incrementResult, res>>
    /\ UNCHANGED <<usageTracking, lastUpdated, req, usageCheck, completion, callNo>>
    /\ UNCHANGED <<reportVars, clientVars, pureVars>>

\* incrementUsage, third await: INSERT {ipAddress, reportCount: 1}; the statement
\* names no tool, the row gets the tool `columnDefault`
ServerlessInsert(r, dbOk, columnDefault) ==
    /\ pc[r] = "Insert"
    /\ LET k == <<getClientIp(req[r]), columnDefault>>
       IN  IF ~dbOk \/ UniqueViolation(usageTracking, k)
           THEN /\ ServerlessReturn(r, IncResult(FALSE, 0, TRUE))
                /\ UNCHANGED <<usageTracking, lastUpdated>>
           ELSE /\ usageTracking' = [usageTracking EXCEPT ![k] = 1]
                /\ lastUpdated' = lastUpdated
                /\ ServerlessReturn(r, IncResult(TRUE, 1, FALSE))
    /\ UNCHANGED <<req, usageCheck, completion, callNo>>
    /\ UNCHANGED <<reportVars, clientVars, pureVars>>

\* the tool of a usage_tracking row inserted without one
ToolColumnDefault == "creditcommander"

ServerlessRequests == {q \in Requests : q.kind = "generate"}

NextServerless ==
    \E r \in Req :
        \/ \E q \in ServerlessRequests : Receive(r, q)
        \/ \E dbOk \in BOOLEAN : ServerlessCheck(r, dbOk)
        \/ \E outcome \in GenOutcomes : ServerlessGenerate(r, outcome)
        \/ \E dbOk \in BOOLEAN : ServerlessUpdate(r, dbOk)
        \/ \E dbOk \in BOOLEAN : ServerlessSelect(r, dbOk)
        \/ \E dbOk \in BOOLEAN : ServerlessInsert(r, dbOk, ToolColumnDefault)

SpecServerless == Init /\ [][NextServerless]_vars

(***************************************************************************)
(* One request to the Express route and one to the serverless handler, on  *)
(* the same store, each run to its response.  Every awaited promise of a   *)
(* handler settles (the store and the generator answer or fail), and the   *)
(* event loop then runs the continuation: each handler's steps are weakly  *)
(* fair.  Requests need not arrive.                                        *)
(***************************************************************************)
ExpressTask == 1
ServerlessTask == 2

ExpressStep ==
    \/ \E dbOk \in BOOLEAN : CheckUsage(ExpressTask, dbOk)
    \/ \E outcome \in GenOutcomes : Generate(ExpressTask, outcome)
    \/ \E dbOk \in BOOLEAN : IncUpdate(ExpressTask, dbOk)
    \/ \E dbOk \in BOOLEAN : IncSelect(ExpressTask, dbOk)
    \/ \E dbOk \in BOOLEAN : IncInsert(ExpressTask, dbOk)

ServerlessStep ==
    \/ \E dbOk \in BOOLEAN : ServerlessCheck(ServerlessTask, dbOk)
    \/ \E outcome \in GenOutcomes : ServerlessGenerate(ServerlessTask, outcome)
    \/ \E dbOk \in BOOLEAN : ServerlessUpdate(ServerlessTask, dbOk)
    \/ \E dbOk \in BOOLEAN : ServerlessSelect(ServerlessTask, dbOk)
    \/ \E dbOk \in BOOLEAN : ServerlessInsert(ServerlessTask, dbOk, ToolColumnDefault)

NextLive ==
    \/ \E q \in ServerlessRequests : Receive(ExpressTask, q)
    \/ \E q \in ServerlessRequests : Receive(ServerlessTask, q)
    \/ ExpressStep
    \/ ServerlessStep

SpecLive == Init /\ [][NextLive]_vars /\ WF_vars(ExpressStep) /\ WF_vars(ServerlessStep)

(***************************************************************************)
(* The two handlers side by side.  Each has a store of its own: the        *)
(* Express route serves address 1 and the serverless handler address 2,    *)
(* and neither touches a row of another address, so the rows of address 1  *)
(* are the store of the one and the rows of address 2, equal at the start, *)
(* the store of the other.  Both are sent the same request, one request    *)
(* after the other; the generator succeeds and the stores are reachable.   *)
(***************************************************************************)
ExpressAddress == <<Str(<<"1">>), Undefined, Str(<<"9">>)>>
ServerlessAddress == <<Undefined, Str(<<"2">>), Str(<<"9">>)>>

\* the same request arrives at both handlers
ReceiveBoth(tool, formData) ==
    /\ pc[ExpressTask] = "None"
    /\ pc[ServerlessTask] = "None"
    /\ req' = [req EXCEPT
                 ![ExpressTask] = Request("generate", ExpressAddress[1], ExpressAddress[2],
                                          ExpressAddress[3], tool, formData),
                 ![ServerlessTask] = Request("generate", ServerlessAddress[1],
                                             ServerlessAddress[2], ServerlessAddress[3],
                                             tool, formData)]
    /\ pc' = [pc EXCEPT ![ExpressTask] = "Idle", ![ServerlessTask] = "Idle"]
    /\ callNo' = callNo + 1
    /\ UNCHANGED <<usageTracking, lastUpdated, usageCheck, incrementResult, res, completion>>
    /\ UNCHANGED <<reportVars, clientVars, pureVars>>

MaxRounds == 3

\* both responses have been sent; the next request may arrive
NextBoth ==
    /\ pc[ExpressTask] = "Responded"
    /\ pc[ServerlessTask] = "Responded"
    /\ callNo < MaxRounds
    /\ pc' = [pc EXCEPT ![ExpressTask] = "None", ![ServerlessTask] = "None"]
    /\ req' = [req EXCEPT ![ExpressTask] = None, ![ServerlessTask] = None]
    /\ usageCheck' = [usageCheck EXCEPT ![ExpressTask] = None, ![ServerlessTask] = None]
    /\ incrementResult' = [incrementResult EXCEPT ![ExpressTask] = None, ![ServerlessTask] = None]
    /\ res' = [res EXCEPT ![ExpressTask] = None, ![ServerlessTask] = None]
    /\ completion' = [completion EXCEPT ![ExpressTask] = NoCompletion,
                                        ![ServerlessTask] = NoCompletion]
    /\ UNCHANGED <<usageTracking, lastUpdated, callNo>>
    /\ UNCHANGED <<reportVars, clientVars, pureVars>>

NextPair ==
    \/ \E tool \in ToolInputs, formData \in FormInputs : ReceiveBoth(tool, formData)
    \/ CheckUsage(ExpressTask, TRUE)
    \/ Generate(ExpressTask, "ok")
    \/ IncUpdate(ExpressTask, TRUE)
    \/ IncSelect(ExpressTask, TRUE)
    \/ IncInsert(ExpressTask, TRUE)
    \/ ServerlessCheck(ServerlessTask, TRUE)
    \/ ServerlessGenerate(ServerlessTask, "ok")
    \/ ServerlessUpdate(ServerlessTask, TRUE)
    \/ ServerlessSelect(ServerlessTask, TRUE)
    \/ ServerlessInsert(ServerlessTask, TRUE, ToolColumnDefault)
    \/ NextBoth

SpecPair == Init /\ [][NextPair]_vars

(***************************************************************************)
(* checksum (djb2 with xor) of the client, on 32-bit integers held as two  *)
(* 16-bit halves <<high, low>>                                             *)
(***************************************************************************)
Half == 65536

RECURSIVE BitOr(_, _)
\* variant: a | b in place of a ^ b
BitOr(a, b) ==
    IF a = 0 THEN b
    ELSE IF b = 0 THEN a
    ELSE (IF (a % 2) + (b % 2) > 0 THEN 1 ELSE 0) + 2 * BitOr(a \div 2, b \div 2)

RECURSIVE Xor(_, _)
\* a ^ b for non-negative a, b
Xor(a, b) ==
    IF a = 0 THEN b
    ELSE IF b = 0 THEN a
    ELSE (((a % 2) + (b % 2)) % 2) + 2 * Xor(a \div 2, b \div 2)

\* ((hash << 5) + hash) ^ code, as a 32-bit value; code < 65536
HashStep(hash, code) ==
    LET low == hash[2] * 33
        high == hash[1] * 33 + (low \div Half)
    IN  <<high % Half, Xor(low % Half, code)>>

\* the printable ASCII characters, from code 32 to code 126; the three that
\* cannot be written as a one-character string here are spelled out
Ascii ==
    <<
      " ", "!", "quote", "#", "$", "%", "&", "'", "(", ")", "*", "+",
      ",", "-", ".", "/", "0", "1", "2", "3", "4", "5", "6", "7",
      "8", "9", ":", ";", "<", "=", ">", "?", "@", "A", "B", "C",
      "D", "E", "F", "G", "H", "I", "J", "K", "L", "M", "N", "O",
      "P", "Q", "R", "S", "T", "U", "V", "W", "X", "Y", "Z", "[",
      "backslash", "]", "^", "_", "backtick", "a", "b", "c", "d", "e", "f", "g",
      "h", "i", "j", "k", "l", "m", "n", "o", "p", "q", "r", "s",
      "t", "u", "v", "w", "x", "y", "z", "{", "|", "}", "~" >>

\* String.prototype.charCodeAt on those characters
CharCodeAt == [c \in {Ascii[i] : i \in DOMAIN Ascii} |-> 31 + CHOOSE i \in DOMAIN Ascii : Ascii[i] = c]

RECURSIVE HashFrom(_, _, _, _)
\* the loop over str[i..j], started with hash; the range is folded by halves,
\* and the hash of the first half is computed before the second is entered
HashFrom(hash, str, i, j) ==
    IF i > j THEN hash
    ELSE IF i = j THEN HashStep(hash, CharCodeAt[str[i]])
    ELSE LET mid == (i + j) \div 2
             first == HashFrom(hash, str, i, mid)
         IN  IF first[1] < Half THEN HashFrom(first, str, mid + 1, j) ELSE first

HexDigits == <<"0", "1", "2", "3", "4", "5", "6", "7", "8", "9", "a", "b", "c", "d", "e", "f">>

\* the four hexadecimal digits of a 16-bit value
Hex4(n) ==
    <<HexDigits[(n \div 4096) + 1], HexDigits[((n \div 256) % 16) + 1],
      HexDigits[((n \div 16) % 16) + 1], HexDigits[(n % 16) + 1]>>

\* ('00000000' + (hash >>> 0).toString(16)).slice(-8); 5381 is 0x00001505
checksum(str) ==
    LET hash == HashFrom(<<0, 5381>>, str, 1, Len(str))
    IN  Hex4(hash[1]) \o Hex4(hash[2])

(***************************************************************************)
(* The report routes: /api/reports/save, /list, /:id (GET and DELETE)      *)
(***************************************************************************)
MaxReports == 2

\* `anon_${clientId}`
getAnonymousUserId(clientId) == <<"a", "n", "o", "n", "_">> \o clientId.v

\* the values of the X-Client-Id header: absent, empty, two clients
ClientIdHeaders == {Undefined, Str(<<>>), Str(<<"a">>), Str(<<"b">>)}

UserIds == {getAnonymousUserId(c) : c \in {Str(<<"a">>), Str(<<"b">>)}}

\* the documents submitted as htmlContent
DocHeading == <<"<", "h", "2", ">", "a", "<", "/", "h", "2", ">">>
DocForm == <<"<", "f", "o", "r", "m", ">", "a", "<", "/", "f", "o", "r", "m", ">">>
Documents == {DocHeading, DocForm}

\* the tags of the modelled documents that sanitize-html lets through
AllowedTags ==
    {<<"d", "i", "v">>, <<"e", "m">>, <<"h", "r">>, <<"h", "2">>, <<"h", "3">>, <<"h", "4">>}

\* allowedAttributes['*']
AllowedAttributes == {<<"s", "t", "y", "l", "e">>, <<"c", "l", "a", "s", "s">>}

RECURSIVE IndexFrom(_, _, _)
\* the first index >= i of character c in str, Len(str) + 1 when there is none
IndexFrom(str, c, i) ==
    IF i > Len(str) THEN i
    ELSE IF str[i] = c THEN i
    ELSE IndexFrom(str, c, i + 1)

\* the index of the "<" of the tag that position k lies in, 0 when k is text
TagStart(html, k) ==
    LET opens == {i \in 1..k : html[i] = "<"}
        last == CHOOSE i \in opens : \A x \in opens : x <= i
    IN  IF opens = {} THEN 0
        ELSE IF \E x \in last..(k - 1) : html[x] = ">" THEN 0
        ELSE last

\* text is kept; a tag is kept when its name is allowed and dropped otherwise;
\* of a tag that is kept, an attribute is kept when its name is allowed
SanitizeKeeps(html, k) ==
    LET i == TagStart(html, k)
        j == IndexFrom(html, ">", i + 1)
        space == i + IndexFrom(SubSeq(html, i + 1, j - 1), " ", 1)
        nameEnd == IF space < j THEN space ELSE j
        tagName == SelectSeq(SubSeq(html, i + 1, nameEnd - 1), LAMBDA c : c # "/")
        attribute == SubSeq(html, space + 1, j - 1)
    IN  \/ i = 0
        \/ /\ tagName \in AllowedTags
           /\ \/ k < space
              \/ k = j
              \/ attribute \in AllowedAttributes

SanitizeFrom(html, i) ==
    LET kept == SelectSeq([k \in 1..Len(html) |-> k], LAMBDA k : k >= i /\ SanitizeKeeps(html, k))
    IN  [r \in 1..Len(kept) |-> html[kept[r]]]

\* variant: the content is stored as submitted
sanitizeHtmlContentIdentity(html) == html

sanitizeHtmlContent(html) == SanitizeFrom(html, 1)

ToolkitCodes == {"creditcommander", "grantgenie", "complipilot"}

\* req.query.toolkit when the query has none
NoToolkit == ""

\* a checksum that is the hash of no modelled document
ForeignChecksum == <<"0", "0", "0", "0", "0", "0", "0", "0">>

\* names the save dialog gives a report
ReportNames == {<<"r">>, <<"s">>}

DefaultName == <<"r">>

SaveBody(toolkitCode, htmlContent, sum, userId, ownerId) ==
    [name |-> DefaultName, toolkitCode |-> toolkitCode, htmlContent |-> htmlContent,
     checksum |-> sum, userId |-> userId, ownerId |-> ownerId]

\* request bodies of /api/reports/save: what the client sends for each toolkit,
\* a document with a tag the sanitizer drops, a checksum of something else,
\* a body that names another owner, and a body without htmlContent
SaveBodies ==
    { SaveBody(t, Str(DocHeading), checksum(DocHeading), Undefined, Undefined) : t \in ToolkitCodes }
    \cup
    { SaveBody("creditcommander", Str(DocForm), checksum(DocForm), Undefined, Undefined),
      SaveBody("creditcommander", Str(DocHeading), ForeignChecksum, Undefined, Undefined),
      SaveBody("grantgenie", Str(DocHeading), checksum(DocHeading),
               Str(getAnonymousUserId(Str(<<"b">>))), Str(getAnonymousUserId(Str(<<"b">>)))),
      SaveBody("creditcommander", Undefined, checksum(DocHeading), Undefined, Undefined) }

\* insertComplianceReportSchema.parse accepts the body
SchemaAccepts(body) == body.htmlContent.t = "string"

\* variant: the body's owner wins when it names one
StampOwnerFromBody(body, userId) == IF Truthy(body.userId) THEN body.userId.v ELSE userId

\* sanitizedData.userId
StampOwner(body, userId) == userId

\* the row INSERTed by /save: {...reportData, htmlContent: sanitized, userId, ownerId: ''}
SavedReport(id, body, userId) ==
    [id |-> id, createdAt |-> id, userId |-> StampOwner(body, userId), ownerId |-> <<>>,
     name |-> body.name, toolkitCode |-> body.toolkitCode,
     htmlContent |-> sanitizeHtmlContent(body.htmlContent.v),
     checksum |-> body.checksum]

HeaderRequired == ErrorResponse(400, "X-Client-Id header is required")

\* variant: only an absent header is refused
HeaderMissingOnlyAbsent(clientId) == clientId.t = "undefined"

\* !clientId
HeaderMissing(clientId) == ~Truthy(clientId)

Call(op, clientId, arg, response) ==
    [op |-> op, clientId |-> clientId, arg |-> arg, status |-> response.status,
     body |-> response.body]

\* variant: the WHERE clause without the owner
OwnedByAnyone(row, userId) == TRUE

\* eq(complianceReports.userId, userId)
OwnedBy(row, userId) == row.userId = userId

\* variant: the legacy alias in both directions
ToolkitFilterBothWays(row, toolkit) ==
    IF toolkit \in {"creditcommander", "grantgenie"}
    THEN row.toolkitCode = "creditcommander" \/ row.toolkitCode = "grantgenie"
    ELSE row.toolkitCode = toolkit

\* toolkitFilter of /list
ToolkitFilter(row, toolkit) ==
    IF toolkit = "creditcommander"
    THEN row.toolkitCode = "creditcommander" \/ row.toolkitCode = "grantgenie"
    ELSE row.toolkitCode = toolkit

RECURSIVE OrderByCreatedAtDesc(_)
\* .orderBy(desc(complianceReports.createdAt))
OrderByCreatedAtDesc(rows) ==
    IF rows = {} THEN <<>>
    ELSE LET first == CHOOSE x \in rows : \A y \in rows : y.createdAt <= x.createdAt
         IN  <<first>> \o OrderByCreatedAtDesc(rows \ {first})

\* variant: the list recomputes the checksum from the stored html
ListColumnsRecomputed(row) ==
    [id |-> row.id, name |-> row.name, checksum |-> checksum(row.htmlContent),
     createdAt |-> row.createdAt]

\* the columns /list selects
ListColumns(row) ==
    [id |-> row.id, name |-> row.name, checksum |-> row.checksum, createdAt |-> row.createdAt]

ListResult(table, userId, toolkit) ==
    LET reports == OrderByCreatedAtDesc(
                       {row \in table : ToolkitFilter(row, toolkit) /\ OwnedBy(row, userId)})
    IN  [status |-> 200, body |-> [reports |-> [i \in 1..Len(reports) |-> ListColumns(reports[i])]]]

\* the rows WHERE id = id AND user_id = userId
Selected(table, userId, id) == {row \in table : row.id = id /\ OwnedBy(row, userId)}

\* variant: a report of another owner is answered 403
GetResultForbidden(table, userId, id) ==
    IF Selected(table, userId, id) # {}
    THEN [status |-> 200, body |-> CHOOSE row \in Selected(table, userId, id) : TRUE]
    ELSE IF \E row \in table : row.id = id
    THEN ErrorResponse(403, "Access denied.")
    ELSE ErrorResponse(404, "Report not found.")

GetResult(table, userId, id) ==
    IF Selected(table, userId, id) = {}
    THEN ErrorResponse(404, "Report not found.")
    ELSE [status |-> 200, body |-> CHOOSE row \in Selected(table, userId, id) : TRUE]

DeleteResult(table, userId, id) ==
    IF Selected(table, userId, id) = {}
    THEN ErrorResponse(404, "Report not found or access denied.")
    ELSE [status |-> 200, body |-> [success |-> TRUE]]

\* POST /api/reports/save
SaveReport(clientId, body, dbOk) ==
    /\ nextId < MaxReports
    /\ IF HeaderMissing(clientId)
       THEN /\ reply' = Call("save", clientId, body, HeaderRequired)
            /\ UNCHANGED <<complianceReports, nextId>>
       ELSE IF ~SchemaAccepts(body) \/ ~dbOk
       THEN /\ reply' = Call("save", clientId, body, ErrorResponse(400, "Failed to save report."))
            /\ UNCHANGED <<complianceReports, nextId>>
       ELSE LET savedReport == SavedReport(nextId + 1, body, getAnonymousUserId(clientId))
            IN  /\ complianceReports' = complianceReports \cup {savedReport}
                /\ nextId' = nextId + 1
                /\ reply' = Call("save", clientId, body, [status |-> 200, body |-> savedReport])
    /\ UNCHANGED <<usageVars, clientVars, pureVars>>

\* GET /api/reports/list?toolkit=
ListReports(clientId, toolkit, dbOk) ==
    /\ reply' = Call("list", clientId, toolkit,
                     IF HeaderMissing(clientId) THEN HeaderRequired
                     ELSE IF toolkit = NoToolkit
                     THEN ErrorResponse(400, "toolkit query parameter is required")
                     ELSE IF ~dbOk THEN ErrorResponse(500, "Failed to retrieve reports.")
                     ELSE ListResult(complianceReports, getAnonymousUserId(clientId), toolkit))
    /\ UNCHANGED <<complianceReports, nextId>>
    /\ UNCHANGED <<usageVars, clientVars, pureVars>>

\* GET /api/reports/:id
GetReport(clientId, id, dbOk) ==
    /\ reply' = Call("get", clientId, id,
                     IF HeaderMissing(clientId) THEN HeaderRequired
                     ELSE IF ~dbOk THEN ErrorResponse(500, "Failed to retrieve report.")
                     ELSE GetResult(complianceReports, getAnonymousUserId(clientId), id))
    /\ UNCHANGED <<complianceReports, nextId>>
    /\ UNCHANGED <<usageVars, clientVars, pureVars>>

\* DELETE /api/reports/:id
DeleteReport(clientId, id, dbOk) ==
    /\ IF HeaderMissing(clientId)
       THEN /\ reply' = Call("delete", clientId, id, HeaderRequired)
            /\ complianceReports' = complianceReports
       ELSE IF ~dbOk
       THEN /\ reply' = Call("delete", clientId, id, ErrorResponse(500, "Failed to delete report."))
            /\ complianceReports' = complianceReports
       ELSE LET userId == getAnonymousUserId(clientId)
            IN  /\ reply' = Call("delete", clientId, id, DeleteResult(complianceReports, userId, id))
                /\ complianceReports' = complianceReports \ Selected(complianceReports, userId, id)
    /\ UNCHANGED nextId
    /\ UNCHANGED <<usageVars, clientVars, pureVars>>

ReportIds == 1..MaxReports

ToolkitQueries == {NoToolkit} \cup ToolkitCodes

NextReports ==
    \E clientId \in ClientIdHeaders, dbOk \in BOOLEAN :
        \/ \E body \in SaveBodies : SaveReport(clientId, body, dbOk)
        \/ \E toolkit \in ToolkitQueries : ListReports(clientId, toolkit, dbOk)
        \/ \E id \in ReportIds : GetReport(clientId, id, dbOk)
        \/ \E id \in ReportIds : DeleteReport(clientId, id, dbOk)

SpecReports == InitFresh /\ [][NextReports]_vars

(***************************************************************************)
(* The renderer of the client: escapeHtml, safePlaceholder,                *)
(* renderStructuredHTML and the two recommendation renderers.  The         *)
(* literal text of the templates is shortened: white space, style and      *)
(* class attributes are left out, titles are reduced to their initials,    *)
(* and the attribute data-testid is written `t`.                           *)
(***************************************************************************)
RECURSIVE Flatten(_)
\* Array.prototype.join('') of strings
Flatten(strs) ==
    IF Len(strs) = 0 THEN <<>>
    ELSE IF Len(strs) = 1 THEN strs[1]
    ELSE LET mid == Len(strs) \div 2
         IN  Flatten(SubSeq(strs, 1, mid)) \o Flatten(SubSeq(strs, mid + 1, Len(strs)))

\* String(val) of a string or of a one-digit number
ToStr(val) == IF val.t = "number" THEN <<HexDigits[val.v + 1]>> ELSE val.v

\* what innerHTML gives back for a character stored through textContent
EscapeChar(c) ==
    CASE c = "&" -> <<"&", "a", "m", "p", ";">>
      [] c = "<" -> <<"&", "l", "t", ";">>
      [] c = ">" -> <<"&", "g", "t", ";">>
      [] OTHER -> <<c>>

escapeHtml(str) ==
    IF ~Truthy(str) THEN <<>>
    ELSE LET text == ToStr(str)
         IN  Flatten([i \in 1..Len(text) |-> EscapeChar(text[i])])

PendingInput == <<"<", "e", "m", ">", "[", "P", "e", "n", "d", "i", "n", "g", " ", "I", "n", "p", "u", "t", "]", "<", "/", "e", "m", ">">>

\* variant: a missing value renders as nothing
safePlaceholderBlank(val) == escapeHtml(val)

safePlaceholder(val) ==
    IF ~Truthy(val) \/ (val.t = "array" /\ Len(val.v) = 0)
    THEN PendingInput
    ELSE escapeHtml(val)

\* the keys the renderer reads from the generated content
NarrativeFields ==
    {"profileSummary", "quickWins", "tradeLinesPlan", "cardStrategy", "bankingSignals",
     "actionPlan", "riskFlags"}

ListFields == {"vendorRecommendations", "cardRecommendations"}

\* an object without any of those keys
EmptyObject == [f \in NarrativeFields \cup ListFields |-> Undefined]

\* const {field = dflt} = generated || {}
Destructure(generated, field, dflt) ==
    LET object == IF Truthy(generated) THEN generated.v ELSE EmptyObject
    IN  IF object[field].t = "undefined" THEN dflt ELSE object[field]

\* one line of the header block
MetaLine(label, val) ==
    <<"<", "d", "i", "v", ">">> \o label \o safePlaceholder(val) \o <<"<", "/", "d", "i", "v", ">">>

\* one section card, its title in a heading of the given level
SectionCard(level, title, val) ==
    <<"<", "d", "i", "v", ">", "<", "h", level, ">">> \o title \o <<"<", "/", "h", level, ">">>
        \o safePlaceholder(val) \o <<"<", "/", "d", "i", "v", ">">>

\* one vendor card: v.name || 'Unknown Vendor'
VendorCard(v) ==
    <<"<", "d", "i", "v", " ", "t", ">", "<", "h", "4", ">">> \o escapeHtml(Or(v.name, Str(<<"U", "n", "k", "n", "o", "w", "n", " ", "V", "e", "n", "d", "o", "r">>)))
        \o <<"<", "/", "h", "4", ">", "<", "/", "d", "i", "v", ">">>

renderVendorRecommendations(vendors) ==
    IF vendors.t # "array" \/ Len(vendors.v) = 0 THEN <<>>
    ELSE <<"<", "d", "i", "v", ">", "<", "h", "3", ">", "R", "V", "<", "/", "h", "3", ">", "<", "d", "i", "v", " ", "t", ">">>
             \o Flatten([i \in 1..Len(vendors.v) |-> VendorCard(vendors.v[i])])
             \o <<"<", "/", "d", "i", "v", ">", "<", "/", "d", "i", "v", ">">>

\* typeof c.applyOrder === 'number' ? c.applyOrder : 99
OrderOf(c) == IF c.applyOrder.t = "number" THEN c.applyOrder.v ELSE 99

RECURSIVE InsertSorted(_, _)
\* c placed after every card whose order is not greater
InsertSorted(sorted, c) ==
    IF sorted = <<>> THEN <<c>>
    ELSE IF OrderOf(Head(sorted)) - OrderOf(c) <= 0
         THEN <<Head(sorted)>> \o InsertSorted(Tail(sorted), c)
         ELSE <<c>> \o sorted

RECURSIVE SortFrom(_, _, _)
SortFrom(sorted, cards, i) ==
    IF i > Len(cards) THEN sorted
    ELSE SortFrom(InsertSorted(sorted, cards[i]), cards, i + 1)

\* [...cards].sort((a, b) => orderA - orderB): a stable sort
SortByApplyOrder(cards) == SortFrom(<<>>, cards, 1)

\* one card: c.name || 'Unknown Card', and the badge when c.applyOrder is truthy
CardCard(c) ==
    <<"<", "d", "i", "v", " ", "t", ">", "<", "h", "4", ">">> \o escapeHtml(Or(c.name, Str(<<"U", "n", "k", "n", "o", "w", "n", " ", "C", "a", "r", "d">>)))
        \o <<"<", "/", "h", "4", ">">>
        \o (IF Truthy(c.applyOrder) THEN <<"#">> \o ToStr(c.applyOrder) ELSE <<>>)
        \o <<"<", "/", "d", "i", "v", ">">>

renderCardRecommendations(cards) ==
    IF cards.t # "array" \/ Len(cards.v) = 0 THEN <<>>
    ELSE LET sortedCards == SortByApplyOrder(cards.v)
         IN  <<"<", "d", "i", "v", ">", "<", "h", "3", ">", "R", "C", "<", "/", "h", "3", ">", "<", "d", "i", "v", " ", "t", ">">>
                 \o Flatten([i \in 1..Len(sortedCards) |-> CardCard(sortedCards[i])])
                 \o <<"<", "/", "d", "i", "v", ">", "<", "/", "d", "i", "v", ">">>

\* variant: the header block carries the time of rendering
HeaderBlockStamped(payload) ==
    MetaLine(<<"B">>, payload.businessName)
        \o MetaLine(<<"E">>, payload.entityType)
        \o MetaLine(<<"U">>, payload.utilization) \o <<"%">>
        \o MetaLine(<<"L">>, payload.targetLimit)
        \o MetaLine(<<"T">>, Or(payload.tone, Str(<<"P", "r", "o", "f", "e", "s", "s", "i", "o", "n", "a", "l">>)))
        \o MetaLine(<<"G">>, Str(<<HexDigits[clock + 1]>>))
        \o <<"<", "h", "r", "/", ">">>

\* headerBlock of renderStructuredHTML
HeaderBlock(payload) ==
    MetaLine(<<"B">>, payload.businessName)
        \o MetaLine(<<"E">>, payload.entityType)
        \o MetaLine(<<"U">>, payload.utilization) \o <<"%">>
        \o MetaLine(<<"L">>, payload.targetLimit)
        \o MetaLine(<<"T">>, Or(payload.tone, Str(<<"P", "r", "o", "f", "e", "s", "s", "i", "o", "n", "a", "l">>)))
        \o <<"<", "h", "r", "/", ">">>

renderStructuredHTML(payload, generated) ==
    LET field(f) == Destructure(generated, f, Str(<<>>))
        list(f) == Destructure(generated, f, Arr(<<>>))
    IN  HeaderBlock(payload)
            \o SectionCard("2", <<"P", "S">>, field("profileSummary"))
            \o SectionCard("3", <<"B", "S">>, field("bankingSignals"))
            \o SectionCard("3", <<"Q", "W">>, field("quickWins"))
            \o SectionCard("3", <<"T", "L">>, field("tradeLinesPlan"))
            \o renderVendorRecommendations(list("vendorRecommendations"))
            \o SectionCard("3", <<"C", "S">>, field("cardStrategy"))
            \o renderCardRecommendations(list("cardRecommendations"))
            \o SectionCard("3", <<"A", "P">>, field("actionPlan"))
            \o SectionCard("3", <<"R", "F">>, field("riskFlags"))

(***************************************************************************)
(* The client: handleGenerate from the response on, saveCurrentResult,     *)
(* loadCurrentResult on a page load, handleExport, clearing the results,   *)
(* and saving to and loading from the report routes.                       *)
(***************************************************************************)
(* The CSV export of the client.                                           *)
(***************************************************************************)
\* obj?.name: undefined when obj is null or undefined or has no such property
Property(obj, name) ==
    IF obj.t = "object" /\ name \in DOMAIN obj.v THEN obj.v[name] ELSE Undefined

\* the toast of handleExportCSV when currentResult has no response
CsvGenerateFirst == "Please generate a credit roadmap first before exporting CSV."

\* the sections of the CSV in their order
CsvSections ==
    <<"profileSummary", "bankingSignals", "quickWins", "tradeLinesPlan",
      "cardStrategy", "actionPlan", "riskFlags">>

\* handleExportCSV: the header row and one group of rows for each section present
HandleExportCSV ==
    LET data == Property(currentResult, "response")
    IN  /\ exported' =
               IF ~Truthy(data) THEN [error |-> CsvGenerateFirst]
               ELSE [csv |-> SelectSeq(CsvSections, LAMBDA f : Truthy(Property(data, f))),
                     date |-> clock]
        /\ UNCHANGED <<clock, currentResult, localStorage, resultsContainer>>
        /\ UNCHANGED <<usageVars, reportVars, pureVars>>

(***************************************************************************)
MaxClock == 2

CURRENT_VERSION == <<"2", "0", "2", "4", "1", "1", "1", "1">>

Payload(businessName, utilization, tone) ==
    [businessName |-> businessName, entityType |-> Str(<<"L", "L", "C">>),
     utilization |-> utilization, targetLimit |-> Str(<<"9">>), tone |-> tone]

\* the form filled in; the payload of handleGenerate has no tone
FilledForm == Payload(Str(<<"a">>), Num(5), Undefined)

\* the form: filled in, and with the business name and the utilization left empty
Payloads == {FilledForm, Payload(Str(<<>>), Num(0), Undefined)}

Vendor(name) == [name |-> name]

Card(name, applyOrder) == [name |-> name, applyOrder |-> applyOrder]

Content(text, riskFlags, vendors, cards) ==
    Obj([f \in NarrativeFields \cup ListFields |->
            CASE f = "riskFlags" -> riskFlags
              [] f = "vendorRecommendations" -> vendors
              [] f = "cardRecommendations" -> cards
              [] OTHER -> text])

\* bodies of a 200 response of /generate: narrative only, and with both lists
Contents ==
    {Content(Str(<<"n">>), Str(<<"r">>), Arr(<<>>), Arr(<<>>)),
     Content(Str(<<"n">>), Str(<<"a", "&", "b">>),
             Arr(<<Vendor(Str(<<"v">>))>>), Arr(<<Card(Str(<<"c">>), Num(1))>>))}

\* the object assigned to currentResult
Result(id, version, payload, roadmap, html, createdAt, sum) ==
    Obj([id |-> id, version |-> version, payload |-> payload, roadmap |-> roadmap,
         html |-> html, createdAt |-> createdAt, checksum |-> sum])

\* the clock of the browser advances
Tick ==
    /\ clock < MaxClock
    /\ clock' = clock + 1
    /\ UNCHANGED <<currentResult, localStorage, resultsContainer, exported>>
    /\ UNCHANGED <<usageVars, reportVars, pureVars>>

\* handleGenerate after a 200 response with body generated
HandleGenerate(payload, generated) ==
    LET html == renderStructuredHTML(payload, generated)
        cs == checksum(html)
    IN  /\ resultsContainer' = html
        /\ currentResult' = Result(clock, Str(CURRENT_VERSION), payload, generated, html, clock, cs)
        /\ localStorage' = currentResult'
        /\ UNCHANGED <<clock, exported>>
        /\ UNCHANGED <<usageVars, reportVars, pureVars>>

\* a page load: the constructor, then loadCurrentResult
LoadCurrentResult ==
    /\ IF localStorage.t = "null"
       THEN /\ currentResult' = Null
            /\ resultsContainer' = <<>>
            /\ UNCHANGED localStorage
       ELSE IF localStorage.v.version # Str(CURRENT_VERSION)
       THEN /\ currentResult' = Null
            /\ resultsContainer' = <<>>
            /\ localStorage' = Null
       ELSE /\ currentResult' = localStorage
            /\ resultsContainer' = localStorage.v.html
            /\ UNCHANGED localStorage
    /\ UNCHANGED <<clock, exported>>
    /\ UNCHANGED <<usageVars, reportVars, pureVars>>

\* variant: the html is embedded as text
wrapForPdfEscaped(innerHTML, r) ==
    <<"<", "d", "i", "v", ">", "G", ":">> \o <<HexDigits[r.createdAt + 1]>>
        \o escapeHtml(Str(innerHTML)) \o <<"<", "/", "d", "i", "v", ">">>

\* the wrapper: the header with the stamp of r.createdAt, innerHTML, the footer
wrapForPdf(innerHTML, r) ==
    <<"<", "d", "i", "v", ">", "G", ":">> \o <<HexDigits[r.createdAt + 1]>>
        \o innerHTML \o <<"<", "/", "d", "i", "v", ">">>

\* handleExport: the wrapped html and the metadata handed to exportAllResultsToPDF
HandleExport ==
    /\ currentResult.t = "object"
    /\ currentResult.v.html # <<>>
    /\ exported' = [html |-> wrapForPdf(currentResult.v.html, currentResult.v),
                    inner |-> currentResult.v.html, date |-> clock]
    /\ UNCHANGED <<clock, currentResult, localStorage, resultsContainer>>
    /\ UNCHANGED <<usageVars, reportVars, pureVars>>

\* the clear button
ClearResults ==
    /\ currentResult.t = "object"
    /\ resultsContainer' = <<>>
    /\ currentResult' = Null
    /\ localStorage' = Null
    /\ UNCHANGED <<clock, exported>>
    /\ UNCHANGED <<usageVars, reportVars, pureVars>>

\* this.ownerId: the value getOrCreateOwnerId keeps under ybg_owner_id
OwnerId == Str(<<"o">>)

\* this.auth.getAuthHeaders(): the identity header of the signed-in client
SupabaseAuthHeaders == [h \in {"x-client-id"} |-> Str(<<"a">>)]

\* the headers object the client spreads into its requests (names in lower case)
getAuthHeaders(auth) ==
    IF auth THEN SupabaseAuthHeaders
    ELSE IF Truthy(OwnerId) THEN [h \in {"x-owner-id"} |-> OwnerId]
    ELSE [h \in {} |-> Undefined]

\* req.headers['x-client-id'] of a request with these headers
ClientIdOf(headers) ==
    IF "x-client-id" \in DOMAIN headers THEN headers["x-client-id"] ELSE Undefined

\* the response of GET /api/reports/list?toolkit=creditcommander
ListResponse(clientId) ==
    IF HeaderMissing(clientId) THEN HeaderRequired
    ELSE ListResult(complianceReports, getAnonymousUserId(clientId), "creditcommander")

\* reports.find(r => r.name === name) on a list response that is ok
ExistingReport(listResponse, name) ==
    /\ listResponse.status = 200
    /\ \E i \in DOMAIN listResponse.body.reports : listResponse.body.reports[i].name = name

\* saveReportToDatabase(name): the list, the prompt when a report of that name
\* exists, then POST /api/reports/save with the current result
SaveReportToDatabase(auth, name, confirmOverwrite) ==
    /\ currentResult.t = "object"
    /\ IF /\ ExistingReport(ListResponse(ClientIdOf(getAuthHeaders(auth))), name)
          /\ ~confirmOverwrite
       THEN UNCHANGED vars
       ELSE SaveReport(ClientIdOf(getAuthHeaders(auth)),
                       [SaveBody("creditcommander", Str(currentResult.v.html),
                                 currentResult.v.checksum, Undefined, Undefined)
                            EXCEPT !.name = name],
                       TRUE)

\* the response of GET /api/reports/:id
GetReportResponse(clientId, id) ==
    IF HeaderMissing(clientId) THEN HeaderRequired
    ELSE GetResult(complianceReports, getAnonymousUserId(clientId), id)

\* loadReportFromDatabase: the response is taken as it is
LoadReportFromDatabase(auth, id) ==
    LET response == GetReportResponse(ClientIdOf(getAuthHeaders(auth)), id)
        report == response.body
    IN  /\ reply' = Call("get", ClientIdOf(getAuthHeaders(auth)), id, response)
        /\ IF response.status = 200
           THEN /\ resultsContainer' =
                       IF report.htmlContent # <<>> THEN report.htmlContent ELSE resultsContainer
                /\ currentResult' = Result(report.id, Undefined, Undefined, Undefined,
                                           report.htmlContent, report.createdAt, report.checksum)
                /\ localStorage' = currentResult'
           ELSE UNCHANGED <<currentResult, localStorage, resultsContainer>>
        /\ UNCHANGED <<complianceReports, nextId, clock, exported>>
        /\ UNCHANGED <<usageVars, pureVars>>

\* one browser tab without the report store
NextClient ==
    \/ Tick
    \/ \E payload \in Payloads, generated \in Contents : HandleGenerate(payload, generated)
    \/ LoadCurrentResult
    \/ HandleExport
    \/ ClearResults

SpecClient == InitFresh /\ [][NextClient]_vars

\* one browser tab and the report store
NextStore ==
    \/ \E generated \in Contents : HandleGenerate(FilledForm, generated)
    \/ LoadCurrentResult
    \/ \E auth \in BOOLEAN, name \in ReportNames, confirmOverwrite \in BOOLEAN :
           SaveReportToDatabase(auth, name, confirmOverwrite)
    \/ \E auth \in BOOLEAN, id \in ReportIds : LoadReportFromDatabase(auth, id)

SpecStore == InitFresh /\ [][NextStore]_vars

\* one browser tab, the report store and the CSV export
NextCsv ==
    \/ \E generated \in Contents : HandleGenerate(FilledForm, generated)
    \/ LoadCurrentResult
    \/ \E auth \in BOOLEAN : SaveReportToDatabase(auth, DefaultName, TRUE)
    \/ \E auth \in BOOLEAN, id \in ReportIds : LoadReportFromDatabase(auth, id)
    \/ HandleExportCSV
    \/ ClearResults

SpecCsv == InitFresh /\ [][NextCsv]_vars

(***************************************************************************)
(* The renderer applied to a profile and a content, and to the same        *)
(* content with its recommendation lists in the opposite order.            *)
(***************************************************************************)
\* a narrative field: absent, null, empty, a text, a text to be escaped
NarrativeValues == {Undefined, Null, Str(<<>>), Str(<<"n">>), Str(<<"<", "b", ">">>)}

\* a list of vendors: absent, null, empty, two vendors in both orders, a null item
VendorLists ==
    {Undefined, Null, Arr(<<>>),
     Arr(<<Vendor(Str(<<"v">>)), Vendor(Str(<<"w">>))>>),
     Arr(<<Vendor(Str(<<"w">>)), Vendor(Str(<<"v">>))>>),
     Arr(<<Null>>)}

\* a list of cards: absent, empty, two cards with distinct orders, with the
\* same order, and without an order
CardLists ==
    {Undefined, Arr(<<>>),
     Arr(<<Card(Str(<<"c">>), Num(2)), Card(Str(<<"d">>), Num(1))>>),
     Arr(<<Card(Str(<<"c">>), Num(1)), Card(Str(<<"d">>), Num(1))>>),
     Arr(<<Card(Str(<<"c">>), Undefined), Card(Str(<<"d">>), Undefined)>>)}

\* the contents handed to the renderer: no content, and objects whose seven
\* narrative fields and two lists vary
RenderContents ==
    {Undefined, Null, Obj(EmptyObject)}
    \cup {Content(text, riskFlags, vendors, cards) :
             text \in NarrativeValues, riskFlags \in {Undefined, Str(<<"r">>)},
             vendors \in VendorLists, cards \in CardLists}

\* v.name of an item that is null: a TypeError
RenderThrows(payload, generated) ==
    \E f \in ListFields :
        LET list == Destructure(generated, f, Arr(<<>>))
        IN  list.t = "array" /\ \E i \in DOMAIN list.v : "name" \notin DOMAIN list.v[i]

\* the outcome of this.renderStructuredHTML(payload, generated)
RenderOutcome(payload, generated) ==
    IF RenderThrows(payload, generated)
    THEN [threw |-> TRUE, html |-> <<>>]
    ELSE [threw |-> FALSE, html |-> renderStructuredHTML(payload, generated)]

Reverse(seq) == [i \in 1..Len(seq) |-> seq[Len(seq) + 1 - i]]

\* the content with the items of its two lists in the opposite order
Permuted(generated) ==
    Obj([f \in DOMAIN generated.v |->
            IF f \in ListFields /\ generated.v[f].t = "array"
            THEN Arr(Reverse(generated.v[f].v))
            ELSE generated.v[f]])

ChooseContent(payload, generated) ==
    /\ input = None
    /\ input' = [payload |-> payload, generated |-> generated]
    /\ UNCHANGED output
    /\ UNCHANGED <<usageVars, reportVars, clientVars>>

Render ==
    /\ input # None
    /\ output = None
    /\ output' = RenderOutcome(input.payload, input.generated)
    /\ UNCHANGED input
    /\ UNCHANGED <<usageVars, reportVars, clientVars>>

RenderPermuted ==
    /\ input # None
    /\ output = None
    /\ input.generated.t = "object"
    /\ ~RenderThrows(input.payload, input.generated)
    /\ output' = [threw |-> FALSE,
                  html |-> renderStructuredHTML(input.payload, input.generated),
                  permuted |-> renderStructuredHTML(input.payload, Permuted(input.generated))]
    /\ UNCHANGED input
    /\ UNCHANGED <<usageVars, reportVars, clientVars>>

NextRender ==
    \/ \E payload \in Payloads, generated \in RenderContents : ChooseContent(payload, generated)
    \/ Render
    \/ RenderPermuted

SpecRender == InitFresh /\ [][NextRender]_vars

(***************************************************************************)
(* The normalisation of the generator's document in the two /generate      *)
(* handlers: JSON.parse of the message content, then one literal that      *)
(* gives every field of the response a value.                              *)
(***************************************************************************)
\* what a field of the parsed document can hold: nothing, null, an empty and a
\* non-empty string, the numbers 0 and 7, an empty and a non-empty list, an object
FieldValues ==
    {Undefined, Null, Str(<<>>), Str(<<"n">>), Num(0), Num(7), Arr(<<>>),
     Arr(<<Vendor(Str(<<"v">>))>>), Obj([step |-> Str(<<"n">>)])}

\* the parsed document: profileSummary, actionPlan and the two lists vary
Document(profileSummary, actionPlan, list) ==
    Obj([f \in NarrativeFields \cup ListFields |->
            CASE f = "profileSummary" -> profileSummary
              [] f = "actionPlan" -> actionPlan
              [] f \in ListFields -> list
              [] OTHER -> Str(<<"n">>)])

\* JSON.parse(content || '{}'): the document null, the empty document, objects
GeneratorDocuments ==
    {Null, Obj(EmptyObject)}
    \cup {Document(profileSummary, actionPlan, list) :
             profileSummary \in FieldValues, actionPlan \in FieldValues,
             list \in {Undefined, Null, Arr(<<>>), Arr(<<Vendor(Str(<<"v">>))>>), Str(<<"n">>)}}

\* the default strings of the Express route; each is a non-empty literal
ExpressDefault(f) == Str(<<"d", "e", "f", "a", "u", "l", "t">>)

\* the default strings of the serverless handler: '... not generated.'
ServerlessDefault(f) == Str(<<"n", "o", "t", " ", "g", "e", "n", "e", "r", "a", "t", "e", "d", ".">>)

\* the response literal of the Express route
NormalizeExpress(aiResponse) ==
    [f \in NarrativeFields \cup ListFields |->
        IF f \in ListFields
        THEN Or(aiResponse.v[f], Arr(<<>>))
        ELSE Or(aiResponse.v[f], ExpressDefault(f))]

\* the response literal of the serverless handler: seven fields, no list
NormalizeServerless(aiResponse) ==
    [f \in NarrativeFields |->
        IF f = "actionPlan"
        THEN (IF aiResponse.v[f].t = "string" THEN aiResponse.v[f] ELSE ServerlessDefault(f))
        ELSE Or(aiResponse.v[f], ServerlessDefault(f))]

Handlers == {"express", "serverless"}

\* aiResponse.profileSummary of null is a TypeError, caught by the handler
NormalizeOutcome(handler, aiResponse) ==
    IF aiResponse.t = "null" THEN [handler |-> handler, threw |-> TRUE]
    ELSE [handler |-> handler, threw |-> FALSE,
          response |-> IF handler = "express" THEN NormalizeExpress(aiResponse)
                       ELSE NormalizeServerless(aiResponse)]

ChooseDocument(aiResponse) ==
    /\ input = None
    /\ input' = [aiResponse |-> aiResponse]
    /\ UNCHANGED output
    /\ UNCHANGED <<usageVars, reportVars, clientVars>>

Normalize(handler) ==
    /\ input # None
    /\ output = None
    /\ output' = NormalizeOutcome(handler, input.aiResponse)
    /\ UNCHANGED input
    /\ UNCHANGED <<usageVars, reportVars, clientVars>>

NextNormalize ==
    \/ \E aiResponse \in GeneratorDocuments : ChooseDocument(aiResponse)
    \/ \E handler \in Handlers : Normalize(handler)

SpecNormalize == InitFresh /\ [][NextNormalize]_vars

(***************************************************************************)
(* checksum applied to a string and to the same string with one character  *)
(* replaced by a different one                                             *)
(***************************************************************************)
MaxLen == 3

ChecksumAlphabet == {"a", "e", "<", " ", "~"}

RECURSIVE StringsUpTo(_)
\* the strings of at most n characters
StringsUpTo(n) ==
    IF n = 0 THEN {<<>>}
    ELSE LET shorter == StringsUpTo(n - 1)
         IN  shorter \cup {Append(str, c) : str \in shorter, c \in ChecksumAlphabet}

ChooseString(str) ==
    /\ input = None
    /\ input' = [str |-> str]
    /\ UNCHANGED <<output, usageVars, reportVars, clientVars>>

ReplaceCharacter(i, c) ==
    /\ input # None
    /\ i \in 1..Len(input.str)
    /\ c # input.str[i]
    /\ LET replaced == [input.str EXCEPT ![i] = c]
       IN  output' = [at |-> i, str |-> replaced,
                      before |-> checksum(input.str), after |-> checksum(replaced)]
    /\ UNCHANGED <<input, usageVars, reportVars, clientVars>>

NextChecksum ==
    \/ \E str \in StringsUpTo(MaxLen) : ChooseString(str)
    \/ \E i \in 1..MaxLen, c \in ChecksumAlphabet : ReplaceCharacter(i, c)

SpecChecksum == InitFresh /\ [][NextChecksum]_vars

(***************************************************************************)
(* Vocabulary of the properties                                            *)
(***************************************************************************)
Min(a, b) == IF a < b THEN a ELSE b

Started(r) == pc[r] # "None"
IsGenerate(r) == Started(r) /\ req[r].kind = "generate"
Checked(r) == usageCheck[r] # None
Incremented(r) == incrementResult[r] # None
Answered(r) == res[r] # None
InIncrement(r) == pc[r] \in {"Reread", "Insert"} \/ Incremented(r)
Quiescent == \A r \in Req : pc[r] \in {"None", "Responded"}

\* the stored count of a key, 0 when it has no row
StoredCount(k) == IF RowExists(usageTracking, k) THEN usageTracking[k] ELSE 0

\* the tasks that have called incrementUsage for key k and got its result
IncrementCalls(k) == {r \in Req : Started(r) /\ Key(req[r]) = k /\ Incremented(r)}

\* the /api/generate requests of key k answered 200
Delivered(k) ==
    {r \in Req : IsGenerate(r) /\ Key(req[r]) = k /\ Answered(r) /\ res[r].status = 200}

(***************************************************************************)
(* C1: N concurrent Increment calls on a fresh (identity, tool), reachable *)
(* store: once all calls have completed the stored count is min(N, 30),    *)
(* exactly min(N, 30) calls report success and all others limitReached.    *)
(* Checked under SpecFresh.                                                *)
(***************************************************************************)
C1_QuotaAtomicity ==
    Quiescent =>
        \A k \in Keys :
            LET calls == IncrementCalls(k)
                n == Cardinality(calls)
            IN  /\ StoredCount(k) = Min(n, LIMIT)
                /\ Cardinality({r \in calls : incrementResult[r].success}) = Min(n, LIMIT)
                /\ \A r \in calls :
                       ~incrementResult[r].success => incrementResult[r].limitReached

(***************************************************************************)
(* C2: in every reachable state every usage counter row satisfies          *)
(* 0 <= count <= 30.                                                       *)
(***************************************************************************)
C2_CountWithinLimit ==
    \A k \in Keys :
        RowExists(usageTracking, k) => 0 <= usageTracking[k] /\ usageTracking[k] <= LIMIT

\* two tasks of one key raced at the limit: one took the last unit, one was refused
C2_Witness ==
    \E k \in Keys : \E r1, r2 \in Req :
        /\ r1 # r2
        /\ usageTracking[k] = LIMIT
        /\ r1 \in IncrementCalls(k) /\ incrementResult[r1] = IncResult(TRUE, LIMIT, FALSE)
        /\ r2 \in IncrementCalls(k) /\ incrementResult[r2] = IncResult(FALSE, LIMIT, TRUE)

(***************************************************************************)
(* C3: a row at count 29, two concurrent /api/generate requests of that    *)
(* identity both pass Check: exactly one Increment succeeds with count 30, *)
(* the other returns success=false, limitReached=true, and the stored      *)
(* count ends at 30.  Checked under SpecReachable.                         *)
(***************************************************************************)
\* r1 and r2 passed Check at 29 and are the only callers of Increment for their key
RacePair(r1, r2) ==
    /\ r1 # r2
    /\ IsGenerate(r1) /\ IsGenerate(r2)
    /\ Key(req[r1]) = Key(req[r2])
    /\ usageCheck[r1] = CheckResult(TRUE, LIMIT - 1)
    /\ usageCheck[r2] = CheckResult(TRUE, LIMIT - 1)
    /\ Incremented(r1) /\ Incremented(r2)
    /\ \A r3 \in Req \ {r1, r2} :
           Started(r3) /\ Key(req[r3]) = Key(req[r1]) => ~InIncrement(r3)

C3_RaceAtLimit ==
    \A r1, r2 \in Req :
        RacePair(r1, r2) =>
            /\ \/ /\ incrementResult[r1] = IncResult(TRUE, LIMIT, FALSE)
                  /\ incrementResult[r2] = IncResult(FALSE, LIMIT, TRUE)
               \/ /\ incrementResult[r2] = IncResult(TRUE, LIMIT, FALSE)
                  /\ incrementResult[r1] = IncResult(FALSE, LIMIT, TRUE)
            /\ usageTracking[Key(req[r1])] = LIMIT

C3_Witness == \E r1, r2 \in Req : RacePair(r1, r2)

(***************************************************************************)
(* C4: /api/generate answers 200 only if that request's Increment returned *)
(* success=true; when Increment reports limitReached the content is        *)
(* discarded and the answer is the 429; so the number of 200 responses of  *)
(* an (identity, tool) never exceeds its stored count, nor 30.             *)
(***************************************************************************)
C4_NoUncountedReport ==
    /\ \A r \in Req :
           IsGenerate(r) /\ Answered(r) =>
               /\ res[r].status = 200 => Incremented(r) /\ incrementResult[r].success
               /\ Incremented(r) /\ incrementResult[r].limitReached =>
                      res[r] = LimitResponse(incrementResult[r].count, Key(req[r])[2])
    /\ \A r \in Req :
           IsGenerate(r) /\ Answered(r) /\ res[r].status = 200 =>
               LET k == Key(req[r])
               IN  /\ Cardinality(Delivered(k)) <= StoredCount(k)
                   /\ Cardinality(Delivered(k)) <= LIMIT

\* one request got its content, another lost the race after a successful generation
C4_Witness ==
    \E r1, r2 \in Req :
        /\ IsGenerate(r1) /\ IsGenerate(r2) /\ Key(req[r1]) = Key(req[r2])
        /\ Answered(r1) /\ res[r1].status = 200
        /\ completion[r2] = "ok" /\ Incremented(r2) /\ incrementResult[r2].limitReached
        /\ Answered(r2) /\ res[r2].status = 429

(***************************************************************************)
(* C5: within /api/generate, Increment is invoked only after the external  *)
(* generation call returned and its output was parsed; a request ending in *)
(* a validation failure (400) or a generation failure never called         *)
(* Increment, and none of its steps changed a counter.                     *)
(***************************************************************************)
C5_IncrementAfterGeneration ==
    /\ [](\A r \in Req :
              IsGenerate(r) /\ (pc[r] = "Generated" \/ InIncrement(r)) => completion[r] = "ok")
    /\ [](\A r \in Req :
              IsGenerate(r) /\ Answered(r) /\ (res[r].status = 400 \/ completion[r] \notin {"ok", NoCompletion})
                  => ~Incremented(r))
    /\ [][\A r \in Req :
              pc[r] \in {"None", "Idle", "QuotaChecked"} /\ pc'[r] # pc[r]
                  => usageTracking' = usageTracking]_vars

\* one request failed in generation, another was charged after its generation
C5_Witness ==
    \E r1, r2 \in Req :
        /\ IsGenerate(r1) /\ completion[r1] = "unparseable" /\ Answered(r1) /\ res[r1].status = 500
        /\ ~Incremented(r1)
        /\ IsGenerate(r2) /\ completion[r2] = "ok" /\ Incremented(r2) /\ incrementResult[r2].success

(***************************************************************************)
(* C6: if Check returns allowed=false for a /api/generate request, the     *)
(* handler answers 429 without invoking the external generator and without *)
(* modifying any counter.                                                  *)
(***************************************************************************)
C6_BlockedBeforeGeneration ==
    /\ [](\A r \in Req :
              IsGenerate(r) /\ Checked(r) /\ ~usageCheck[r].allowed =>
                  /\ pc[r] = "Responded"
                  /\ res[r] = LimitResponse(usageCheck[r].count, Key(req[r])[2])
                  /\ completion[r] = NoCompletion
                  /\ ~Incremented(r))
    /\ [][\A r \in Req :
              pc[r] = "Idle" /\ pc'[r] # "Idle" => usageTracking' = usageTracking]_vars

\* a request of a resolved identity blocked by a counter at the limit
C6_Witness ==
    \E r \in Req :
        /\ IsGenerate(r) /\ Key(req[r])[1] # UNKNOWN
        /\ Checked(r) /\ usageCheck[r] = CheckResult(FALSE, LIMIT)
        /\ Answered(r) /\ res[r].status = 429

(***************************************************************************)
(* C7: sequential valid /api/generate calls of one identity and tool from  *)
(* an empty table: for k = 1..30 the k-th call is answered 200 and its     *)
(* Increment reports count k; every later call is answered 429 with        *)
(* count=30, limit=30 and the stored count stays 30.  Checked under        *)
(* SpecSeq.                                                                *)
(***************************************************************************)
C7_SequentialScenario ==
    pc[1] = "Responded" =>
        IF callNo <= LIMIT
        THEN /\ res[1] = ContentResponse
             /\ incrementResult[1] = IncResult(TRUE, callNo, FALSE)
             /\ usageTracking[Key(SeqRequest)] = callNo
        ELSE /\ res[1] = LimitResponse(LIMIT, "creditcommander")
             /\ res[1].body.limit = LIMIT
             /\ usageTracking[Key(SeqRequest)] = LIMIT

\* the call after the 30th has been answered
C7_Witness ==
    /\ callNo = LIMIT + 1
    /\ pc[1] = "Responded"
    /\ res[1].status = 429

(***************************************************************************)
(* C8: for every request from which no network address can be determined   *)
(* (no usable x-forwarded-for, x-real-ip or socket address) Check returns  *)
(* allowed=false with count 30, Increment returns success=false with       *)
(* limitReached=true, and /api/generate answers 429 without calling the    *)
(* external generator.  Checked under SpecInputs.                          *)
(***************************************************************************)
\* the value carries at least one character of an address
HasAddress(x) ==
    \/ x.t = "string" /\ \E i \in 1..Len(x.v) : x.v[i] \notin {" ", ","}
    \/ x.t = "array" /\ \E j \in 1..Len(x.v) : \E i \in 1..Len(x.v[j]) : x.v[j][i] \notin {" ", ","}

NoUsableAddress(q) ==
    ~HasAddress(q.forwarded) /\ ~HasAddress(q.realIp) /\ ~HasAddress(q.remoteAddress)

C8_UnresolvedIdentityBlocked ==
    \A r \in Req :
        Started(r) /\ NoUsableAddress(req[r]) =>
            /\ Checked(r) => usageCheck[r] = CheckResult(FALSE, 30)
            /\ Incremented(r) => ~incrementResult[r].success /\ incrementResult[r].limitReached
            /\ IsGenerate(r) /\ pc[r] # "Idle" =>
                   pc[r] = "Responded" /\ res[r].status = 429 /\ completion[r] = NoCompletion

(***************************************************************************)
(* C9: if a store operation fails during Increment, Increment returns      *)
(* success=false with limitReached=true, the counter is left unchanged and *)
(* the enclosing /api/generate request is answered 429.                    *)
(***************************************************************************)
C9_IncrementFailsClosed ==
    [][\A r \in Req :
           (IncUpdate(r, FALSE) \/ IncSelect(r, FALSE) \/ IncInsert(r, FALSE)) =>
               /\ incrementResult'[r].success = FALSE
               /\ incrementResult'[r].limitReached = TRUE
               /\ usageTracking' = usageTracking
               /\ IsGenerate(r) => pc'[r] = "Responded" /\ res'[r].status = 429]_vars

\* the UPDATE of a request failed on a row at 29: the row is still at 29, the answer is 429
C9_Witness ==
    \E r \in Req :
        /\ IsGenerate(r) /\ completion[r] = "ok"
        /\ Incremented(r) /\ incrementResult[r] = IncResult(FALSE, 0, TRUE)
        /\ usageTracking[Key(req[r])] = LIMIT - 1
        /\ res[r].status = 429

(***************************************************************************)
(* C10: if the store read fails during Check and the identity is resolved, *)
(* Check returns allowed=true with count 0 and the request proceeds to the *)
(* external generation call.                                               *)
(***************************************************************************)
C10_CheckFailsOpen ==
    /\ [][\A r \in Req :
              CheckUsage(r, FALSE) /\ Key(req[r])[1] # UNKNOWN =>
                  /\ usageCheck'[r] = CheckResult(TRUE, 0)
                  /\ IsGenerate(r) => pc'[r] = "QuotaChecked"]_vars
    /\ [][\A r \in Req :
              pc[r] = "QuotaChecked" /\ req[r].formData = "complete" /\ pc'[r] # pc[r] =>
                  completion'[r] # NoCompletion]_vars

\* the read failed on a row at the limit, and the generator was called all the same
C10_Witness ==
    \E r \in Req :
        /\ IsGenerate(r)
        /\ Checked(r) /\ usageCheck[r] = CheckResult(TRUE, 0)
        /\ usageTracking[Key(req[r])] = LIMIT
        /\ completion[r] # NoCompletion

(***************************************************************************)
(* C11: Check is read-only: a call of Check, direct or within              *)
(* /api/generate, whatever it returns and whether or not the store read    *)
(* succeeds, leaves the set of rows, every count and every lastUpdated     *)
(* stamp of the usage table as they were.                                  *)
(***************************************************************************)
C11_CheckReadOnly ==
    [][\A r \in Req :
           ~Checked(r) /\ usageCheck'[r] # None =>
               /\ {k \in Keys : RowExists(usageTracking', k)} = {k \in Keys : RowExists(usageTracking, k)}
               /\ \A k \in Keys : usageTracking'[k] = usageTracking[k]
               /\ \A k \in Keys : lastUpdated'[k] = lastUpdated[k]]_vars

\* a direct Check read a row that another task's UPDATE had brought to the limit and stamped
C11_Witness ==
    \E r \in Req :
        /\ Started(r) /\ req[r].kind = "check" /\ Key(req[r]) \in Keys
        /\ Checked(r) /\ usageCheck[r] = CheckResult(FALSE, LIMIT)
        /\ usageTracking[Key(req[r])] = LIMIT
        /\ lastUpdated[Key(req[r])] \notin {0, r}

(***************************************************************************)
(* C12: every 429 of /api/generate that reports the quota, whether Check   *)
(* blocked the request before generation or Increment refused it after     *)
(* generation, has the shape {error, limitReached: true, count, limit: 30, *)
(* tool}; the only other 429 is the generator's own rate-limit error       *)
(* passed on with {error} alone, sent before any Increment.                *)
(***************************************************************************)
LimitShape(body) ==
    /\ DOMAIN body = {"error", "limitReached", "count", "limit", "tool"}
    /\ body.limitReached = TRUE
    /\ body.limit = 30

C13_IdentityNotForgeable ==
    \A r1, r2 \in Req :
        IsGenerate(r1) /\ IsGenerate(r2) /\ req[r1].remoteAddress = req[r2].remoteAddress =>
            /\ Key(req[r1]) = Key(req[r2])
            /\ Answered(r1) /\ Answered(r2) /\ usageCheck[r1] = CheckResult(TRUE, LIMIT - 1) =>
                   ~(res[r1].status = 200 /\ res[r2].status = 200)

(***************************************************************************)
(* C14: counters are per (identity, tool): a step of Increment changes     *)
(* only the row of the identity and tool of the request it serves; the     *)
(* counts of every other tool of that identity and of every other identity *)
(* are unchanged by it, and Check reports the count of that row.  Checked  *)
(* under SpecServerless.                                                   *)
(***************************************************************************)
C14_CounterPerIdentityAndTool ==
    /\ [][\A k \in Keys :
              usageTracking'[k] # usageTracking[k] =>
                  \E r \in Req : Started(r) /\ pc'[r] # pc[r] /\ Key(req[r]) = k]_vars
    /\ [][\A r \in Req :
              ~Checked(r) /\ usageCheck'[r] # None /\ Key(req[r]) \in Keys =>
                  usageCheck'[r].count \in {0, StoredCount(Key(req[r]))}]_vars

(***************************************************************************)
(* Vocabulary of the report properties                                     *)
(***************************************************************************)
\* the last call was `op` and it was answered with `status`
Replied(op, status) == reply # None /\ reply.op = op /\ reply.status = status

\* the identity the last call was made under
Caller == getAnonymousUserId(reply.clientId)

RowsWithId(table, id) == {row \in table : row.id = id}

(***************************************************************************)
(* C15: ownership isolation: a report saved under identity A is never      *)
(* returned by List or Get called with a different identity B, and Delete  *)
(* called with B never removes it: a row leaves the table only in a Delete *)
(* made under its owner, and until then Get returns it to its owner.       *)
(***************************************************************************)
C15_OwnershipIsolation ==
    /\ [](Replied("list", 200) =>
              \A i \in DOMAIN reply.body.reports :
                  \E row \in complianceReports :
                      row.id = reply.body.reports[i].id /\ row.userId = Caller)
    /\ [](Replied("get", 200) => reply.body.userId = Caller)
    /\ [](reply # None /\ reply.op = "get" /\ reply.status \notin {400, 500} =>
              \A row \in RowsWithId(complianceReports, reply.arg) :
                  row.userId = Caller => reply.status = 200 /\ reply.body = row)
    /\ [][\A row \in complianceReports :
              row \notin complianceReports' =>
                  /\ reply'.op = "delete" /\ reply'.arg = row.id
                  /\ getAnonymousUserId(reply'.clientId) = row.userId]_vars

\* a Delete made under another identity named an existing report and left it in place
C15_Witness ==
    /\ Replied("delete", 404)
    /\ \E row \in RowsWithId(complianceReports, reply.arg) : row.userId # Caller

(***************************************************************************)
(* C16: Get and Delete do not reveal existence to non-owners: when the id  *)
(* exists but belongs to another identity, the status and body of the      *)
(* response are those of the same call on an id that does not exist: 404,  *)
(* never a distinct forbidden outcome.                                     *)
(***************************************************************************)
C16_NoExistenceLeak ==
    /\ [](reply # None /\ reply.op = "get" /\ reply.status \notin {400, 500} =>
              \A row \in RowsWithId(complianceReports, reply.arg) :
                  row.userId # Caller =>
                      /\ reply.status = 404
                      /\ reply.body = GetResult({}, Caller, reply.arg).body)
    /\ [][\A row \in complianceReports :
              /\ reply' # reply /\ reply'.op = "delete" /\ reply'.arg = row.id
              /\ reply'.status \notin {400, 500}
              /\ row.userId # getAnonymousUserId(reply'.clientId)
              => /\ reply'.status = 404
                 /\ reply'.body = DeleteResult({}, row.userId, row.id).body
                 /\ row \in complianceReports']_vars
    /\ [](reply # None => reply.status # 403)

\* a Get made under another identity named an existing report
C16_Witness ==
    /\ Replied("get", 404)
    /\ \E row \in RowsWithId(complianceReports, reply.arg) : row.userId # Caller

(***************************************************************************)
(* C17: Save records the report under the identity resolved from the       *)
(* X-Client-Id header, for every request body: when the body carries its   *)
(* own userId / ownerId the stored row's owner is still the header's       *)
(* identity and never the body's value.                                    *)
(***************************************************************************)
C17_OwnerFromHeader ==
    /\ Replied("save", 200) =>
           /\ reply.body \in complianceReports
           /\ reply.body.userId = Caller
           /\ reply.body.ownerId = <<>>
    /\ \A row \in complianceReports : row.userId \in UserIds /\ row.ownerId = <<>>

\* a body naming another owner was saved
C17_Witness ==
    /\ Replied("save", 200)
    /\ Truthy(reply.arg.userId) /\ reply.arg.userId.v # Caller
    /\ Truthy(reply.arg.ownerId)

(***************************************************************************)
(* C18: on Save, List, Get and Delete a request without the X-Client-Id    *)
(* header (absent or empty) is answered 400 with the message that the      *)
(* header is required, and the report table is unchanged: no row is        *)
(* written, returned or deleted.                                           *)
(***************************************************************************)
C18_HeaderRequired ==
    [][reply' # reply /\ ~Truthy(reply'.clientId) =>
           /\ reply'.status = 400
           /\ reply'.body = [error |-> "X-Client-Id header is required"]
           /\ complianceReports' = complianceReports
           /\ nextId' = nextId]_vars

\* a Delete without the header named a stored report and was refused
C18_Witness ==
    /\ reply # None /\ reply.op = "delete" /\ reply.clientId = Undefined
    /\ reply.status = 400
    /\ RowsWithId(complianceReports, reply.arg) # {}

(***************************************************************************)
(* C19: List(identity, toolkit) returns exactly the reports of that        *)
(* identity whose toolkit code is the requested one, and for the request   *)
(* 'creditcommander' also the identity's reports of the legacy code        *)
(* 'grantgenie'; the alias applies in that direction only.                 *)
(***************************************************************************)
C19_ListFilter ==
    Replied("list", 200) =>
        {reply.body.reports[i].id : i \in DOMAIN reply.body.reports} =
            {row.id : row \in
                {x \in complianceReports :
                    /\ x.userId = Caller
                    /\ \/ x.toolkitCode = reply.arg
                       \/ reply.arg = "creditcommander" /\ x.toolkitCode = "grantgenie"}}

\* a list of 'grantgenie' left out the caller's 'creditcommander' report
C19_Witness ==
    /\ Replied("list", 200) /\ reply.arg = "grantgenie"
    /\ Len(reply.body.reports) = 1
    /\ \E x, y \in complianceReports :
           /\ x.userId = Caller /\ x.toolkitCode = "creditcommander"
           /\ y.userId = Caller /\ y.toolkitCode = "grantgenie"

(***************************************************************************)
(* C20: for every report created by Save the stored checksum is the        *)
(* checksum of the stored html, whatever html and checksum were submitted. *)
(***************************************************************************)
C20_StoredChecksumMatches ==
    \A row \in complianceReports : row.checksum = checksum(row.htmlContent)

(***************************************************************************)
(* C21: a stored report is immutable until deleted: no Save, List, Get or  *)
(* Delete by any identity changes the html, checksum, owner or toolkit     *)
(* code of a stored row; Get and List return the checksum exactly as       *)
(* stored, never recomputed; and a row disappears only in a Delete made    *)
(* under its owning identity.                                              *)
(***************************************************************************)
C21_ImmutableUntilDeleted ==
    /\ [][\A row \in complianceReports :
              /\ \A other \in complianceReports' : other.id = row.id => other = row
              /\ row \notin complianceReports' =>
                     /\ reply'.op = "delete" /\ reply'.status = 200
                     /\ row.userId = getAnonymousUserId(reply'.clientId)]_vars
    /\ [](Replied("get", 200) => reply.body \in complianceReports)
    /\ [](Replied("list", 200) =>
              \A i \in DOMAIN reply.body.reports :
                  \E row \in complianceReports :
                      /\ row.id = reply.body.reports[i].id
                      /\ row.checksum = reply.body.reports[i].checksum)

\* a list returned a checksum that is not the hash of the stored html, as stored,
\* after a later Save and a Delete of another report
C21_Witness ==
    /\ Replied("list", 200)
    /\ nextId = MaxReports
    /\ \E i \in DOMAIN reply.body.reports :
           \E row \in complianceReports :
               /\ row.id = 1 /\ row.id = reply.body.reports[i].id
               /\ reply.body.reports[i].checksum # checksum(row.htmlContent)
    /\ Cardinality(complianceReports) < nextId

\* the positions of html at which pattern starts
Occurrences(html, pattern) ==
    {i \in 1..(Len(html) - Len(pattern) + 1) : SubSeq(html, i, i + Len(pattern) - 1) = pattern}

C23_ListOrderIndependent ==
    "permuted" \in DOMAIN output => output.permuted = output.html

(***************************************************************************)
(* C24: an export never alters the checksummed html.  In every export the  *)
(* wrapped document holds currentResult.structured.html verbatim, that     *)
(* html still hashes to currentResult.checksum (the time of the export and *)
(* the stamp are outside it), and the export leaves currentResult and its  *)
(* cached copy as they were.  Checked under SpecClient.                    *)
(***************************************************************************)
C24_ExportKeepsHtml ==
    [][exported' # exported =>
           /\ currentResult' = currentResult
           /\ localStorage' = localStorage
           /\ resultsContainer' = resultsContainer
           /\ Occurrences(exported'.html, currentResult.v.html) # {}
           /\ exported'.inner = currentResult.v.html
           /\ checksum(exported'.inner) = currentResult'.v.checksum]_vars

\* a result exported again, later than it was generated
C24_Witness ==
    /\ currentResult.t = "object"
    /\ "inner" \in DOMAIN exported
    /\ exported.inner = currentResult.v.html
    /\ exported.date > currentResult.v.createdAt + 1

(***************************************************************************)
(* C25: in every client state with a current result, however it was        *)
(* produced (live generation, restore from the local cache, load from the  *)
(* report store), the checksum of the result is the checksum of its html,  *)
(* and that html is what the panel shows.  Checked under SpecStore.        *)
(***************************************************************************)
C25_ChecksumMatchesHtml ==
    currentResult.t = "object" =>
        /\ currentResult.v.checksum = checksum(currentResult.v.html)
        /\ resultsContainer = currentResult.v.html

HeadingOf(f) ==
    CASE f = "profileSummary" -> <<"<", "h", "2", ">", "P", "S", "<", "/", "h", "2", ">">>
      [] f = "bankingSignals" -> <<"<", "h", "3", ">", "B", "S", "<", "/", "h", "3", ">">>
      [] f = "quickWins" -> <<"<", "h", "3", ">", "Q", "W", "<", "/", "h", "3", ">">>
      [] f = "tradeLinesPlan" -> <<"<", "h", "3", ">", "T", "L", "<", "/", "h", "3", ">">>
      [] f = "cardStrategy" -> <<"<", "h", "3", ">", "C", "S", "<", "/", "h", "3", ">">>
      [] f = "actionPlan" -> <<"<", "h", "3", ">", "A", "P", "<", "/", "h", "3", ">">>
      [] f = "riskFlags" -> <<"<", "h", "3", ">", "R", "F", "<", "/", "h", "3", ">">>
      [] f = "vendorRecommendations" -> <<"<", "h", "3", ">", "R", "V", "<", "/", "h", "3", ">">>
      [] f = "cardRecommendations" -> <<"<", "h", "3", ">", "R", "C", "<", "/", "h", "3", ">">>

\* what stands between the heading of f and the end of its section
RegionOf(html, f) ==
    LET start == (CHOOSE i \in Occurrences(html, HeadingOf(f)) : TRUE) + Len(HeadingOf(f))
        ends == {j \in Occurrences(html, <<"<", "/", "d", "i", "v", ">">>) : j >= start}
        end == CHOOSE j \in ends : \A x \in ends : j <= x
    IN  SubSeq(html, start, end - 1)

\* the value the content gives to field f, undefined when there is no content
FieldOf(generated, f) ==
    IF generated.t = "object" THEN generated.v[f] ELSE Undefined

MissingText(val) == val.t \in {"undefined", "null"} \/ val = Str(<<>>)

MissingList(val) == val.t \in {"undefined", "null"} \/ val = Arr(<<>>)

C27_PlaceholderTotality ==
    (input # None /\ output # None /\ ~RenderThrows(input.payload, input.generated)) =>
        /\ ~output.threw
        /\ \A f \in NarrativeFields :
               /\ Cardinality(Occurrences(output.html, HeadingOf(f))) = 1
               /\ MissingText(FieldOf(input.generated, f)) =>
                      RegionOf(output.html, f) = PendingInput
        /\ \A f \in ListFields :
               MissingList(FieldOf(input.generated, f)) =>
                   Occurrences(output.html, HeadingOf(f)) = {}

\* a content without any field was rendered: seven markers and no list block
C27_Witness ==
    /\ input # None /\ output # None
    /\ input.generated \in {Undefined, Null}
    /\ ~output.threw
    /\ RegionOf(output.html, "riskFlags") = PendingInput

(***************************************************************************)
(* C28: the normalisation is total and defaults every field.  For every    *)
(* document of the generator it does not fail, and the response holds the  *)
(* seven narrative fields, each a non-empty string (the document's value   *)
(* when that is a non-empty string), and the two list fields, each a list  *)
(* (empty when the document has none).  Checked under SpecNormalize.       *)
(***************************************************************************)
C28_NormalizationTotal ==
    output # None =>
        /\ ~output.threw
        /\ \A f \in NarrativeFields :
               /\ f \in DOMAIN output.response
               /\ output.response[f].t = "string"
               /\ output.response[f].v # <<>>
               /\ (input.aiResponse.v[f].t = "string" /\ input.aiResponse.v[f].v # <<>>) =>
                      output.response[f] = input.aiResponse.v[f]
        /\ \A f \in ListFields :
               /\ f \in DOMAIN output.response
               /\ output.response[f].t = "array"
               /\ input.aiResponse.v[f].t \in {"undefined", "null"} =>
                      output.response[f] = Arr(<<>>)

(***************************************************************************)
(* C29: every /generate request ends with exactly one response.  From      *)
(* every state of a request (Idle, QuotaChecked, Generated, and the        *)
(* re-read and the insert inside the increment), whatever fails, the       *)
(* handler eventually has sent a response; a request is finished exactly   *)
(* when it has a response (it never ends without one); and a response,     *)
(* once sent, is never followed by another.  Checked under SpecLive.       *)
(***************************************************************************)
HandlerTasks == {ExpressTask, ServerlessTask}

Running == {"Idle", "QuotaChecked", "Generated", "Reread", "Insert"}

C30_CounterOnlyGrows ==
    [][\A k \in Keys :
           /\ RowExists(usageTracking, k) => RowExists(usageTracking', k)
           /\ (RowExists(usageTracking, k) /\ usageTracking'[k] # usageTracking[k]) =>
                  usageTracking'[k] = usageTracking[k] + 1
           /\ (~RowExists(usageTracking, k) /\ RowExists(usageTracking', k)) =>
                  /\ usageTracking'[k] = 1
                  /\ \E r \in Req :
                         /\ pc[r] = "Insert" /\ Key(req[r]) = k
                         /\ incrementResult'[r] = IncResult(TRUE, 1, FALSE)]_vars

\* a row created by a first increment and raised to 2 by a second one
C30_Witness ==
    \E k \in Keys :
        /\ usageTracking[k] = 2
        /\ \E r \in Req : pc[r] = "Responded" /\ incrementResult[r] = IncResult(TRUE, 1, FALSE)
        /\ \E r \in Req : pc[r] = "Responded" /\ incrementResult[r] = IncResult(TRUE, 2, FALSE)

(***************************************************************************)
(* C31: CSV export is available for a generated roadmap: whenever          *)
(* handleExportCSV runs on a current result that handleGenerate produced   *)
(* (its roadmap is set), it hands out the CSV of the roadmap sections and  *)
(* does not show the "generate a credit roadmap first" error.  Checked     *)
(* under SpecCsv.                                                          *)
(***************************************************************************)
C31_CsvExportAvailable ==
    [][(Truthy(Property(currentResult, "roadmap")) /\ exported' # exported)
           => /\ "csv" \in DOMAIN exported'
              /\ exported'.csv # <<>>]_vars

(***************************************************************************)
(* C32: the usage cap cannot be bypassed through the tool field.  For      *)
(* every value of the field (missing, null, empty, any spelling, unknown,  *)
(* not a string) normalizeTool yields complipilot exactly when the value,  *)
(* as a string, lower-cased and trimmed, is complipilot, and               *)
(* creditcommander otherwise; so the requests of one identity are charged  *)
(* to at most two counter rows, every 200 response raises one of them by   *)
(* one, and from an empty table the identity obtains at most 60            *)
(* generations.  Checked under SpecTools.                                  *)
(***************************************************************************)
CompliPilotSpellings ==
    {Str(COMPLIPILOT),
     Str(<<"C", "o", "m", "p", "l", "i", "P", "i", "l", "o", "t">>),
     Str(<<" ", "c", "o", "m", "p", "l", "i", "p", "i", "l", "o", "t", " ">>),
     Arr(<<COMPLIPILOT>>)}

\* the rows of the identity of ToolRequests
ToolKeys == {Key(SeqRequest)[1]} \X Tools

\* the generations charged to the identity
TotalCount == StoredCount(<<Key(SeqRequest)[1], "creditcommander">>)
                  + StoredCount(<<Key(SeqRequest)[1], "complipilot">>)

ValidResolved(r) ==
    /\ IsGenerate(r)
    /\ req[r].formData = "complete"
    /\ getClientIp(req[r]) # UNKNOWN

C34_LimitReachedAtLeastLimit ==
    \A r \in Req :
        /\ (incrementResult[r] # None /\ incrementResult[r].limitReached)
               => incrementResult[r].count >= LIMIT
        /\ (res[r] # None /\ res[r].status = 429 /\ "limitReached" \in DOMAIN res[r].body)
               => res[r].body.count >= LIMIT

(***************************************************************************)
(* C35: the local cache round trip.  Every current result that             *)
(* saveCurrentResult persisted, whether handleGenerate or                  *)
(* loadReportFromDatabase produced it, is restored unchanged by            *)
(* loadCurrentResult on the next page load and stays in the cache; a       *)
(* cached result is discarded only when it is stale, that is, when it      *)
(* carries the version of another release.  Checked under SpecStore.       *)
(***************************************************************************)
Stale(cached) ==
    /\ cached.v.version.t = "string"
    /\ cached.v.version # Str(CURRENT_VERSION)

C35_CacheRoundTrip ==
    [][(LoadCurrentResult /\ localStorage.t = "object" /\ ~Stale(localStorage))
           => /\ currentResult' = localStorage
              /\ localStorage' = localStorage
              /\ resultsContainer' = localStorage.v.html]_vars

(***************************************************************************)
(* C36: overwrite on save.  When the owner already has a saved report      *)
(* named N and confirms the prompt of saveReportToDatabase, then after the *)
(* save the list of that owner holds exactly one report named N, and that  *)
(* report holds the content just saved.  Checked under SpecStore.          *)
(***************************************************************************)
\* the reports named name in the list of the owner of header clientId
ListedAs(table, clientId, name) ==
    {row \in table :
        /\ OwnedBy(row, getAnonymousUserId(clientId))
        /\ ToolkitFilter(row, "creditcommander")
        /\ row.name = name}

C36_OverwriteOnSave ==
    [][(/\ complianceReports' # complianceReports
        /\ reply'.op = "save"
        /\ reply'.status = 200
        /\ ListedAs(complianceReports, reply'.clientId, reply'.arg.name) # {})
           => LET named == ListedAs(complianceReports', reply'.clientId, reply'.arg.name)
              IN  /\ Cardinality(named) = 1
                  /\ \A row \in named :
                         row.htmlContent = sanitizeHtmlContent(currentResult.v.html)]_vars

(***************************************************************************)
(* C37: client and server agree on the identity header.  Whenever the      *)
(* client has an owner id and no window.supabaseAuth, the headers of       *)
(* getAuthHeaders carry the header the report routes read, so a save (with *)
(* its list) or a load of the client is never answered 400 "X-Client-Id    *)
(* header is required".  Checked under SpecStore.                          *)
(***************************************************************************)
C37_IdentityHeaderAgreed ==
    [][(/\ Truthy(OwnerId)
        /\ \/ \E name \in ReportNames, confirmOverwrite \in BOOLEAN :
                  SaveReportToDatabase(FALSE, name, confirmOverwrite)
           \/ \E id \in ReportIds : LoadReportFromDatabase(FALSE, id))
           => /\ ~HeaderMissing(ClientIdOf(getAuthHeaders(FALSE)))
              /\ reply' # None =>
                     ~(reply'.status = 400 /\ reply'.body = HeaderRequired.body)]_vars

(***************************************************************************)
(* C38: the serverless handler and the Express route of POST /api/generate *)
(* are equivalent with respect to quota: sent the same requests one after  *)
(* the other, starting from equal stores, they answer every request with   *)
(* the same status and leave equal stores, row by row.  Checked under      *)
(* SpecPair.                                                               *)
(***************************************************************************)
\* the store of a handler, by tool: the rows of the address it serves
StoreOf(address) ==
    [t \in Tools |-> usageTracking[<<getClientIp(Request("generate", address[1], address[2],
                                                         address[3], Undefined, "complete")), t>>]]

C38_HandlersEquivalent ==
    (pc[ExpressTask] = "Responded" /\ pc[ServerlessTask] = "Responded") =>
        /\ res[ExpressTask].status = res[ServerlessTask].status
        /\ StoreOf(ExpressAddress) = StoreOf(ServerlessAddress)

====
